---------------------------- MODULE Spec2Model ----------------------------
(***************************************************************************)
(* A model of thorchain-tss-lib:                                           *)
(*   - the EdDSA signing round 2 object (Start / CanAccept / Update /      *)
(*     NextRound), driven either by arbitrary callers (Spec) or by the     *)
(*     party engine (SpecEngine);                                          *)
(*   - the MtA share conversion driver (AliceInit / BobMid / BobMidWC /    *)
(*     AliceEnd / AliceEndWC) with Bob's proofs (SpecMtA);                 *)
(*   - single calls of the library: Bob's prover and verifier (SpecProof), *)
(*     the proof encoding (SpecCodec), the parameters (SpecParams).        *)
(* Big integers are naturals; a nil pointer is Nil.  Curve points are      *)
(* written by their discrete logarithm: the point k stands for k*G in a    *)
(* group of prime order q.                                                 *)
(***************************************************************************)
EXTENDS Integers, Sequences, FiniteSets, TLC

VARIABLES
    \* ---- signing round 2 (one party) ----
    partyIndex,   \* round.PartyID().Index
    started,      \* base.started
    number,       \* base.number
    ok,           \* base.ok
    temp,         \* round.temp (localTempData)
    out,          \* round.out, the messages written to the sink so far
    ret,          \* what the last call on the round returned
    calls,        \* how often each operation has been called (bookkeeping)
    \* ---- MtA exchange ----
    mta,          \* the state of one MtA exchange (see MtAInit)
    \* ---- library calls ----
    call          \* one call of a library function: its inputs and results

roundVars == <<partyIndex, started, number, ok, temp, out, ret, calls>>
vars == <<partyIndex, started, number, ok, temp, out, ret, calls, mta, call>>

(***************************************************************************)
(* Bounds and constants                                                    *)
(***************************************************************************)
\* tss.EC().Params().N, the order of the curve group
q == 3
\* a nil pointer (big integers are modelled as naturals)
Nil == -1
\* number of parties of the signing committee
NumParties == 3
\* how many times the caller invokes NextRound on the round-2 instance
MaxNext == 1
\* how many nonce vectors a prover draws from
NonceSamples == 2

Parties == 0 .. (NumParties - 1)

(***************************************************************************)
(* Big-integer helpers (math/big, common.ModInt)                           *)
(***************************************************************************)
\* (a * b) mod m for 0 <= a, b < m, keeping every product within 32 bits
MulMod(a, b, m) ==
    ((((a \div 256) * b) % m) * 256 + (a % 256) * b) % m

\* big.Int.Exp(b, e, m) for e >= 0
RECURSIVE ModExp(_, _, _)
ModExp(b, e, m) ==
    IF e = 0 THEN 1 % m
    ELSE LET h == ModExp(b, e \div 2, m)
             h2 == MulMod(h, h, m)
         IN IF e % 2 = 1 THEN MulMod(h2, b % m, m) ELSE h2

\* big.Int.GCD
RECURSIVE GCD(_, _)
GCD(a, b) == IF b = 0 THEN a ELSE GCD(b, a % b)

\* big.Int.ModInverse(a, m) for gcd(a, m) = 1
ModInverse(a, m) == CHOOSE x \in 0 .. (m - 1) : MulMod(x, a % m, m) = 1 % m

\* common.IsInInterval(b, bound): 0 <= b < bound
IsInInterval(b, bound) == b < bound /\ b >= 0

\* common.ModInt(q).Sub(x, y)
ModSub(x, y, m) == (x - y) % m

(***************************************************************************)
(* Paillier (crypto/paillier)                                              *)
(***************************************************************************)
\* key pairs N = P * Q of safe primes with gcd(N, lambda) = 1; the second
\* modulus exceeds q^5 + q^2, the first does not
PaillierKeys ==
    { [N |-> 35, LambdaN |-> 12, PhiN |-> 24],
      [N |-> 295, LambdaN |-> 116, PhiN |-> 232] }

NSquare(pk) == pk.N * pk.N
Gamma(pk) == pk.N + 1

\* PublicKey.EncryptAndReturnRandomness with the randomness x drawn by the
\* caller: [c, x, err]
Encrypt(pk, m, x) ==
    IF m < 0 \/ m >= pk.N
    THEN [c |-> Nil, x |-> Nil, err |-> "ErrMessageTooLong"]
    ELSE [c |-> MulMod(ModExp(Gamma(pk), m, NSquare(pk)),
                       ModExp(x, pk.N, NSquare(pk)), NSquare(pk)),
          x |-> x, err |-> "nil"]

\* PublicKey.HomoMult(m, c1): [c, err]
HomoMult(pk, m, c1) ==
    IF m < 0 \/ m >= pk.N \/ c1 < 0 \/ c1 >= NSquare(pk)
    THEN [c |-> Nil, err |-> "ErrMessageTooLong"]
    ELSE [c |-> ModExp(c1, m, NSquare(pk)), err |-> "nil"]

\* PublicKey.HomoAdd(c1, c2): [c, err]
HomoAdd(pk, c1, c2) ==
    IF c1 < 0 \/ c1 >= NSquare(pk) \/ c2 < 0 \/ c2 >= NSquare(pk)
    THEN [c |-> Nil, err |-> "ErrMessageTooLong"]
    ELSE [c |-> MulMod(c1, c2, NSquare(pk)), err |-> "nil"]

\* L(u) = (u - 1) / N
L(u, N) == (u - 1) \div N

\* PrivateKey.Decrypt(c): [m, err]
Decrypt(sk, c) ==
    IF c < 0 \/ c >= NSquare(sk)
    THEN [m |-> Nil, err |-> "ErrMessageTooLong"]
    ELSE IF GCD(c, NSquare(sk)) > 1
    THEN [m |-> Nil, err |-> "ErrMessageMalFormed"]
    ELSE LET Lc == L(ModExp(c, sk.LambdaN, NSquare(sk)), sk.N)
             Lg == L(ModExp(Gamma(sk), sk.LambdaN, NSquare(sk)), sk.N)
         IN [m |-> MulMod(Lc, ModInverse(Lg, sk.N), sk.N), err |-> "nil"]

\* PrivateKey.DecryptAndRecoverRandomness(c): [m, x, err]
DecryptAndRecoverRandomness(sk, c) ==
    LET d == Decrypt(sk, c)
    IN IF d.err # "nil" THEN [m |-> Nil, x |-> Nil, err |-> d.err]
       ELSE [m |-> d.m,
             x |-> ModExp(c % sk.N, ModInverse(sk.N, sk.PhiN), sk.N),
             err |-> "nil"]

(***************************************************************************)
(* The curve group (crypto.ECPoint): the point k is k*G, Nil is no point   *)
(***************************************************************************)
ScalarBaseMult(k) == k % q
ScalarMult(P, k) == (P * k) % q
\* ECPoint.Add: [P, err]
PointAdd(P1, P2) == [P |-> (P1 + P2) % q, err |-> FALSE]
\* the coordinates that enter a hash
PointX(P) == P
PointY(P) == IF P = 0 THEN 0 ELSE P + q

(***************************************************************************)
(* Messages                                                                *)
(***************************************************************************)
NilMsg == [type |-> "nil", broadcast |-> FALSE, from |-> Nil, body |-> <<>>]

\* the round-1 broadcast of party j: its commitment, as big-endian bytes
Round1Commitment(j) == <<1, j + 1>>
SignRound1Message(j) ==
    [type |-> "SignRound1Message", broadcast |-> TRUE, from |-> j,
     body |-> Round1Commitment(j)]

\* big.Int.SetBytes: big-endian bytes to a natural
RECURSIVE SetBytes(_)
SetBytes(bz) ==
    IF Len(bz) = 0 THEN 0
    ELSE 256 * SetBytes(SubSeq(bz, 1, Len(bz) - 1)) + bz[Len(bz)]

UnmarshalCommitment(msg) == SetBytes(msg.body)

\* NewSignRound2Message(from, deCommitment, proof): always a broadcast
NewSignRound2Message(from, deCommit, pir) ==
    [type |-> "SignRound2Message", broadcast |-> TRUE, from |-> from,
     body |-> deCommit \o <<pir.Alpha, pir.T>>]

\* what a peer j may send towards the round-2 buffer: a SignRound2Message,
\* flagged broadcast or point-to-point by the wire
PeerRound2Message(j, bc) ==
    [type |-> "SignRound2Message", broadcast |-> bc, from |-> j,
     body |-> <<j, j>>]

(***************************************************************************)
(* Schnorr proof of knowledge of x with X = x*G (zkp.NewDLogProof)         *)
(***************************************************************************)
\* the constructor fails when an input is absent
DLogProofFails(x, X) == x = Nil \/ X = Nil

\* the challenge c = H(G, X, A) reduced modulo q: a fixed function of the
\* transcript, here a stand-in for the hash
DLogChallenge(X, A) == (X + 2 * A + 1) % q

\* the proof (A, t) under the nonce a: A = a*G, t = a + c*x mod q
NewDLogProof(x, X, a) ==
    [Alpha |-> ScalarBaseMult(a),
     T |-> (a + DLogChallenge(X, ScalarBaseMult(a)) * x) % q]

\* the prover's nonce
DLogNonces == 1 .. (q - 1)

(***************************************************************************)
(* round2                                                                  *)
(***************************************************************************)
\* base.resetOK
resetOK(okv) == [j \in DOMAIN okv |-> FALSE]

\* round2.CanAccept
CanAccept_AnyRound2Message(msg) == msg.type = "SignRound2Message"
CanAccept(msg) ==
    IF msg.type = "SignRound2Message" THEN msg.broadcast ELSE FALSE

\* round2.Update, the loop over the slots: the new ok vector
UpdateOk_ReExamines(okv, msgs) ==
    [j \in DOMAIN okv |->
        IF msgs[j] = NilMsg \/ ~CanAccept(msgs[j]) THEN FALSE
        ELSE TRUE]
UpdateOk(okv, msgs) ==
    [j \in DOMAIN okv |->
        IF okv[j] THEN TRUE
        ELSE IF msgs[j] = NilMsg \/ ~CanAccept(msgs[j]) THEN FALSE
        ELSE TRUE]

\* round2.Update, the value of ret
UpdateRet(okv, msgs) ==
    \A j \in DOMAIN okv :
        okv[j] \/ ~(msgs[j] = NilMsg \/ ~CanAccept(msgs[j]))

\* 1. store r1 message pieces
StoreCommitments_SkipsLast(t) ==
    [j \in Parties |->
        IF j = NumParties - 1 THEN t.cjs[j]
        ELSE UnmarshalCommitment(t.signRound1Messages[j])]
StoreCommitments(t) ==
    [j \in Parties |-> UnmarshalCommitment(t.signRound1Messages[j])]

\* round2.Start when the round is already started
StartRejected_ResetsFirst ==
    /\ started
    /\ ok' = resetOK(ok)
    /\ ret' = [op |-> "Start", val |-> "round already started"]
    /\ UNCHANGED <<started, number, temp, out>>
StartRejected ==
    /\ started
    /\ ret' = [op |-> "Start", val |-> "round already started"]
    /\ UNCHANGED <<started, number, ok, temp, out>>

\* round2.Start when NewDLogProof fails
StartProofError ==
    /\ ~started
    /\ DLogProofFails(temp.ri, temp.pointRi)
    /\ number' = 2
    /\ started' = TRUE
    /\ ok' = resetOK(ok)
    /\ temp' = [temp EXCEPT !.cjs = StoreCommitments(temp)]
    /\ ret' = [op |-> "Start", val |-> "NewDLogProof(ri, pointRi)"]
    /\ UNCHANGED out

\* round2.Start, the successful path
StartOk_NothingSent ==
    /\ ~started
    /\ ~DLogProofFails(temp.ri, temp.pointRi)
    /\ \E a \in DLogNonces :
         LET pir == NewDLogProof(temp.ri, temp.pointRi, a)
             r2msg == NewSignRound2Message(partyIndex, temp.deCommit, pir)
         IN /\ temp' = [temp EXCEPT
                          !.cjs = StoreCommitments(temp),
                          !.signRound2Messages[partyIndex] = r2msg]
            /\ out' = out
    /\ number' = 2
    /\ started' = TRUE
    /\ ok' = resetOK(ok)
    /\ ret' = [op |-> "Start", val |-> "nil"]
StartOk ==
    /\ ~started
    /\ ~DLogProofFails(temp.ri, temp.pointRi)
    /\ \E a \in DLogNonces :
         LET pir == NewDLogProof(temp.ri, temp.pointRi, a)
             r2msg == NewSignRound2Message(partyIndex, temp.deCommit, pir)
         IN /\ temp' = [temp EXCEPT
                          !.cjs = StoreCommitments(temp),
                          !.signRound2Messages[partyIndex] = r2msg]
            /\ out' = Append(out, r2msg)
    /\ number' = 2
    /\ started' = TRUE
    /\ ok' = resetOK(ok)
    /\ ret' = [op |-> "Start", val |-> "nil"]

\* round2.Start; calls.StartOk counts the calls that returned nil
Start ==
    /\ \/ StartRejected /\ calls' = [calls EXCEPT !.Start = 1]
       \/ StartProofError /\ calls' = [calls EXCEPT !.Start = 1]
       \/ StartOk /\ calls' = [calls EXCEPT !.Start = 1, !.StartOk = @ + 1]
    /\ UNCHANGED <<partyIndex, mta, call>>

\* round2.Update
Update ==
    /\ ok' = UpdateOk(ok, temp.signRound2Messages)
    /\ ret' = [op |-> "Update",
               val |-> IF UpdateRet(ok, temp.signRound2Messages)
                       THEN "true" ELSE "false"]
    /\ calls' = [calls EXCEPT !.Update = 1]
    /\ UNCHANGED <<partyIndex, started, number, temp, out, mta, call>>

\* round2.NextRound
NextRound ==
    /\ calls.NextRound < MaxNext
    /\ started' = FALSE
    /\ ret' = [op |-> "NextRound", val |-> "round3"]
    /\ calls' = [calls EXCEPT !.NextRound = @ + 1]
    /\ UNCHANGED <<partyIndex, number, ok, temp, out, mta, call>>

\* the party stores a peer's message in the sender's slot (StoreMessage)
StoreMessage(j, msg) ==
    temp' = [temp EXCEPT !.signRound2Messages[j] = msg]

Deliver ==
    /\ \E j \in Parties \ {partyIndex}, bc \in BOOLEAN :
         StoreMessage(j, PeerRound2Message(j, bc))
    /\ ret' = [op |-> "StoreMessage", val |-> "nil"]
    /\ UNCHANGED <<partyIndex, started, number, ok, out, calls, mta, call>>

(***************************************************************************)
(* The state in which round 1 hands over: round1.NextRound() has built the *)
(* round-2 object around the shared base, started is cleared, number and   *)
(* ok are those round 1 left (every ok[j] was set when round 1 completed). *)
(***************************************************************************)
Secrets == 1 .. (q - 1)

RoundState(i, r, P) ==
    /\ partyIndex = i
    /\ started = FALSE
    /\ number = 1
    /\ ok = [j \in Parties |-> TRUE]
    /\ temp = [signRound1Messages |-> [j \in Parties |-> SignRound1Message(j)],
               signRound2Messages |-> [j \in Parties |-> NilMsg],
               cjs |-> [j \in Parties |-> Nil],
               ri |-> r,
               pointRi |-> IF P THEN ScalarBaseMult(r) ELSE Nil,
               deCommit |-> <<7>>]
    /\ out = <<>>
    /\ ret = [op |-> "none", val |-> "nil"]
    /\ calls = [Start |-> 0, StartOk |-> 0, Update |-> 0, NextRound |-> 0]

RoundInit == \E i \in Parties, r \in Secrets, P \in BOOLEAN : RoundState(i, r, P)

\* the round is not exercised
RoundIdle == RoundState(0, 1, TRUE)

MtAIdle == mta = [pc |-> "idle"]
\* no library call is under way
CallIdle == call = [pc |-> "idle"]

Init == RoundInit /\ MtAIdle /\ CallIdle

Next == Start \/ Update \/ NextRound \/ Deliver

\* the round-2 object under arbitrary sequences of calls
Spec == Init /\ [][Next]_vars

(***************************************************************************)
(* The party engine driving round 2 (BaseStart / BaseUpdate): under the    *)
(* party's mutex it starts the round once on entering it, parks messages   *)
(* that arrive earlier, and on each later message stores it, calls Update  *)
(* and, on readiness, NextRound.                                           *)
(***************************************************************************)
\* a round-2 message arrives while round 1 is still current: it is parked
EnginePark ==
    /\ calls.Start = 0
    /\ Deliver

\* the engine enters round 2 and starts it
EngineStart ==
    /\ calls.Start = 0
    /\ Start

\* Update on the buffer msgs and, on readiness, NextRound
EngineUpdate(msgs) ==
    LET ready == UpdateRet(ok, msgs)
    IN /\ ok' = UpdateOk(ok, msgs)
       /\ ret' = [op |-> "Update", val |-> IF ready THEN "true" ELSE "false"]
       /\ started' = IF ready THEN FALSE ELSE started
       /\ calls' = [calls EXCEPT !.Update = 1,
                                 !.NextRound = IF ready THEN @ + 1 ELSE @]

\* a peer's message arrives while round 2 is current
EngineReceive ==
    /\ calls.Start = 1
    /\ calls.NextRound = 0
    /\ \E j \in Parties \ {partyIndex}, bc \in BOOLEAN :
         /\ StoreMessage(j, PeerRound2Message(j, bc))
         /\ EngineUpdate([temp.signRound2Messages EXCEPT
                            ![j] = PeerRound2Message(j, bc)])
    /\ UNCHANGED <<partyIndex, number, out, mta, call>>

\* on entering the round the engine re-runs Update over the parked messages
EngineDrain ==
    /\ calls.Start = 1
    /\ calls.NextRound = 0
    /\ EngineUpdate(temp.signRound2Messages)
    /\ UNCHANGED <<partyIndex, number, temp, out, mta, call>>

EngineNext == EnginePark \/ EngineStart \/ EngineReceive \/ EngineDrain

SpecEngine == Init /\ [][EngineNext]_vars


(***************************************************************************)
(* Fiat-Shamir challenges: e = RejectionSample(q, SHA512_256i(transcript)) *)
(* The hash is a function nobody can compute ahead: each transcript gets   *)
(* one value of 0 .. q-1, fixed the first time it is hashed (oracle).      *)
(***************************************************************************)
Challenges == 0 .. (q - 1)
OracleAnswers(orc, tr) ==
    IF tr \in DOMAIN orc THEN {orc[tr]} ELSE Challenges
OracleRecord(orc, tr, e) ==
    IF tr \in DOMAIN orc THEN orc ELSE orc @@ (tr :> e)

\* PublicKey.AsInts
AsInts(pk) == <<pk.N, Gamma(pk)>>

(***************************************************************************)
(* Bob's proof, with and without check                                     *)
(***************************************************************************)
q3 == q * q * q
q5 == q3 * q * q
q7 == q5 * q * q

\* a nil *ProofBobWC
NilProofBob ==
    [ptr |-> FALSE, bob |-> FALSE, Z |-> Nil, ZPrm |-> Nil, T |-> Nil,
     V |-> Nil, W |-> Nil, S |-> Nil, S1 |-> Nil, S2 |-> Nil, T1 |-> Nil,
     T2 |-> Nil, U |-> Nil]

\* ProveBobWC, line 39
ProveBobNilArgument_ForgetsR(pk, NTilde, h1, h2, c1, c2, x, y, r) ==
    pk.N = Nil \/ NTilde = Nil \/ h1 = Nil \/ h2 = Nil \/ c1 = Nil
    \/ c2 = Nil \/ x = Nil \/ y = Nil
ProveBobNilArgument(pk, NTilde, h1, h2, c1, c2, x, y, r) ==
    pk.N = Nil \/ NTilde = Nil \/ h1 = Nil \/ h2 = Nil \/ c1 = Nil
    \/ c2 = Nil \/ x = Nil \/ y = Nil \/ r = Nil

\* ProveBobWC, steps 5 to 10: the commitments under the nonces n
ProveBobCommit(pk, NTilde, h1, h2, c1, x, y, X, n) ==
    [u |-> IF X # Nil THEN ScalarBaseMult(n.alpha) ELSE 0,
     z |-> MulMod(ModExp(h1, x, NTilde), ModExp(h2, n.rho, NTilde), NTilde),
     zPrm |-> MulMod(ModExp(h1, n.alpha, NTilde),
                     ModExp(h2, n.rhoPrm, NTilde), NTilde),
     t |-> MulMod(ModExp(h1, y, NTilde), ModExp(h2, n.sigma, NTilde), NTilde),
     v |-> MulMod(MulMod(ModExp(c1, n.alpha, NSquare(pk)),
                         ModExp(Gamma(pk), n.gamma, NSquare(pk)), NSquare(pk)),
                  ModExp(n.beta, pk.N, NSquare(pk)), NSquare(pk)),
     w |-> MulMod(ModExp(h1, n.gamma, NTilde),
                  ModExp(h2, n.tau, NTilde), NTilde)]

\* what is hashed into the challenge (steps 11-12 of the prover, 1-2 of the
\* verifier)
BobTranscript(pk, X, c1, c2, u, z, zPrm, t, v, w) ==
    IF X = Nil
    THEN AsInts(pk) \o <<c1, c2, z, zPrm, t, v, w>>
    ELSE AsInts(pk) \o <<PointX(X), PointY(X), c1, c2, PointX(u), PointY(u),
                         z, zPrm, t, v, w>>

ProveBobTranscript(pk, NTilde, h1, h2, c1, c2, x, y, X, n) ==
    LET cm == ProveBobCommit(pk, NTilde, h1, h2, c1, x, y, X, n)
    IN BobTranscript(pk, X, c1, c2, cm.u, cm.z, cm.zPrm, cm.t, cm.v, cm.w)

\* ProveBobWC with the nonces n and the challenge e: [pf, err]; sampled
\* records whether the nonces were drawn
ProveBobWC_ForgetsBeta(pk, NTilde, h1, h2, c1, c2, x, y, r, X, n, e) ==
    IF ProveBobNilArgument(pk, NTilde, h1, h2, c1, c2, x, y, r)
    THEN [pf |-> NilProofBob, err |-> "ProveBob() received a nil argument",
          sampled |-> FALSE]
    ELSE LET cm == ProveBobCommit(pk, NTilde, h1, h2, c1, x, y, X, n)
         IN [pf |-> [ptr |-> TRUE, bob |-> TRUE,
                     Z |-> cm.z, ZPrm |-> cm.zPrm, T |-> cm.t, V |-> cm.v,
                     W |-> cm.w,
                     S |-> ModExp(r, e, pk.N),
                     S1 |-> e * x + n.alpha,
                     S2 |-> e * n.rho + n.rhoPrm,
                     T1 |-> e * y + n.gamma,
                     T2 |-> e * n.sigma + n.tau,
                     U |-> cm.u],
             err |-> "nil", sampled |-> TRUE]
ProveBobWC(pk, NTilde, h1, h2, c1, c2, x, y, r, X, n, e) ==
    IF ProveBobNilArgument(pk, NTilde, h1, h2, c1, c2, x, y, r)
    THEN [pf |-> NilProofBob, err |-> "ProveBob() received a nil argument",
          sampled |-> FALSE]
    ELSE LET cm == ProveBobCommit(pk, NTilde, h1, h2, c1, x, y, X, n)
         IN [pf |-> [ptr |-> TRUE, bob |-> TRUE,
                     Z |-> cm.z, ZPrm |-> cm.zPrm, T |-> cm.t, V |-> cm.v,
                     W |-> cm.w,
                     S |-> MulMod(ModExp(r, e, pk.N), n.beta % pk.N, pk.N),
                     S1 |-> e * x + n.alpha,
                     S2 |-> e * n.rho + n.rhoPrm,
                     T1 |-> e * y + n.gamma,
                     T2 |-> e * n.sigma + n.tau,
                     U |-> cm.u],
             err |-> "nil", sampled |-> TRUE]

\* ProveBob: the embedded proof without check
ProveBob(pk, NTilde, h1, h2, c1, c2, x, y, r, n, e) ==
    LET res == ProveBobWC(pk, NTilde, h1, h2, c1, c2, x, y, r, Nil, n, e)
    IN IF res.err # "nil" THEN res
       ELSE [res EXCEPT !.pf.U = Nil]

\* one membership test of the verifier: a nil component is dereferenced
InIntervalOrPanic(v, bound) ==
    IF v = Nil THEN "panic"
    ELSE IF ~IsInInterval(v, bound) THEN "false" ELSE "pass"

\* the first outcome of a sequence of checks that is not "pass"
RECURSIVE FirstFailure(_)
FirstFailure(checks) ==
    IF Len(checks) = 0 THEN "pass"
    ELSE IF Head(checks) # "pass" THEN Head(checks)
    ELSE FirstFailure(Tail(checks))

\* ProofBobWC.Verify, lines 191 to 254: "false", "panic", or "pass" when the
\* verifier goes on to hash the transcript
BobVerifyChecks_StrictBounds(pf, pk, NTilde, h1, h2, c1, c2, X) ==
    IF pk.N = Nil \/ NTilde = Nil \/ h1 = Nil \/ h2 = Nil \/ c1 = Nil
       \/ c2 = Nil
    THEN "false"
    ELSE IF ~pf.ptr \/ ~pf.bob THEN "panic"
    ELSE FirstFailure(<<
        InIntervalOrPanic(pf.Z, NTilde),
        InIntervalOrPanic(pf.ZPrm, NTilde),
        InIntervalOrPanic(pf.T, NTilde),
        InIntervalOrPanic(pf.V, NSquare(pk)),
        InIntervalOrPanic(pf.W, NTilde),
        InIntervalOrPanic(pf.S, pk.N),
        IF GCD(pf.Z, NTilde) # 1 THEN "false" ELSE "pass",
        IF GCD(pf.ZPrm, NTilde) # 1 THEN "false" ELSE "pass",
        IF GCD(pf.T, NTilde) # 1 THEN "false" ELSE "pass",
        IF GCD(pf.V, NSquare(pk)) # 1 THEN "false" ELSE "pass",
        IF GCD(pf.W, NTilde) # 1 THEN "false" ELSE "pass",
        IF pf.S = 0 THEN "false" ELSE "pass",
        IF GCD(pf.S, pk.N) # 1 THEN "false" ELSE "pass",
        IF pf.V = 0 THEN "false" ELSE "pass",
        IF GCD(pf.V, pk.N) # 1 THEN "false" ELSE "pass",
        IF pf.S1 = Nil THEN "panic"
        ELSE IF pf.S1 >= q3 THEN "false" ELSE "pass",
        IF pf.T1 = Nil THEN "panic"
        ELSE IF pf.T1 >= q7 THEN "false" ELSE "pass",
        IF X # Nil /\ pf.U = Nil THEN "panic" ELSE "pass" >>)
BobVerifyChecks(pf, pk, NTilde, h1, h2, c1, c2, X) ==
    IF pk.N = Nil \/ NTilde = Nil \/ h1 = Nil \/ h2 = Nil \/ c1 = Nil
       \/ c2 = Nil
    THEN "false"
    ELSE IF ~pf.ptr \/ ~pf.bob THEN "panic"
    ELSE FirstFailure(<<
        InIntervalOrPanic(pf.Z, NTilde),
        InIntervalOrPanic(pf.ZPrm, NTilde),
        InIntervalOrPanic(pf.T, NTilde),
        InIntervalOrPanic(pf.V, NSquare(pk)),
        InIntervalOrPanic(pf.W, NTilde),
        InIntervalOrPanic(pf.S, pk.N),
        IF GCD(pf.Z, NTilde) # 1 THEN "false" ELSE "pass",
        IF GCD(pf.ZPrm, NTilde) # 1 THEN "false" ELSE "pass",
        IF GCD(pf.T, NTilde) # 1 THEN "false" ELSE "pass",
        IF GCD(pf.V, NSquare(pk)) # 1 THEN "false" ELSE "pass",
        IF GCD(pf.W, NTilde) # 1 THEN "false" ELSE "pass",
        IF pf.S = 0 THEN "false" ELSE "pass",
        IF GCD(pf.S, pk.N) # 1 THEN "false" ELSE "pass",
        IF pf.V = 0 THEN "false" ELSE "pass",
        IF GCD(pf.V, pk.N) # 1 THEN "false" ELSE "pass",
        IF pf.S1 = Nil THEN "panic"
        ELSE IF pf.S1 > q3 THEN "false" ELSE "pass",
        IF pf.T1 = Nil THEN "panic"
        ELSE IF pf.T1 > q7 THEN "false" ELSE "pass",
        IF X # Nil /\ pf.U = Nil THEN "panic" ELSE "pass" >>)

\* the transcript the verifier hashes
BobVerifyTranscript(pf, pk, c1, c2, X) ==
    BobTranscript(pk, X, c1, c2, pf.U, pf.Z, pf.ZPrm, pf.T, pf.V, pf.W)

\* 4. the point equation of the "with check" mode
BobVerifyPoint(pf, X, e) ==
    LET gS1 == ScalarBaseMult(pf.S1 % q)
        xEU == PointAdd(ScalarMult(X, e), pf.U)
    IN ~(xEU.err \/ gS1 # xEU.P)

\* 5.
BobVerifyEq5(pf, NTilde, h1, h2, e) ==
    MulMod(ModExp(h1, pf.S1, NTilde), ModExp(h2, pf.S2, NTilde), NTilde)
      = MulMod(ModExp(pf.Z, e, NTilde), pf.ZPrm, NTilde)

\* 6.
BobVerifyEq6(pf, NTilde, h1, h2, e) ==
    MulMod(ModExp(h1, pf.T1, NTilde), ModExp(h2, pf.T2, NTilde), NTilde)
      = MulMod(ModExp(pf.T, e, NTilde), pf.W, NTilde)

\* 7.
BobVerifyEq7(pf, pk, c1, c2, e) ==
    MulMod(MulMod(ModExp(c1, pf.S1, NSquare(pk)),
                  ModExp(pf.S, pk.N, NSquare(pk)), NSquare(pk)),
           ModExp(Gamma(pk), pf.T1, NSquare(pk)), NSquare(pk))
      = MulMod(ModExp(c2, e, NSquare(pk)), pf.V, NSquare(pk))

\* ProofBobWC.Verify, lines 269 to 321, with the challenge e
BobVerifyEquations(pf, pk, NTilde, h1, h2, c1, c2, X, e) ==
    IF X # Nil /\ ~BobVerifyPoint(pf, X, e) THEN "false"
    ELSE IF pf.S2 = Nil THEN "panic"
    ELSE IF ~BobVerifyEq5(pf, NTilde, h1, h2, e) THEN "false"
    ELSE IF pf.T2 = Nil THEN "panic"
    ELSE IF ~BobVerifyEq6(pf, NTilde, h1, h2, e) THEN "false"
    ELSE IF ~BobVerifyEq7(pf, pk, c1, c2, e) THEN "false"
    ELSE "true"

\* ProofBobWC.Verify: "true", "false" or "panic"; e is the hash of the
\* transcript, read only when the checks before it pass
ProofBobWCVerify(pf, pk, NTilde, h1, h2, c1, c2, X, e) ==
    LET pre == BobVerifyChecks(pf, pk, NTilde, h1, h2, c1, c2, X)
    IN IF pre # "pass" THEN pre
       ELSE BobVerifyEquations(pf, pk, NTilde, h1, h2, c1, c2, X, e)

\* ProofBob.Verify
ProofBobVerify(pf, pk, NTilde, h1, h2, c1, c2, e) ==
    IF ~pf.ptr THEN "false"
    ELSE ProofBobWCVerify([pf EXCEPT !.bob = TRUE, !.U = Nil],
                          pk, NTilde, h1, h2, c1, c2, Nil, e)


(***************************************************************************)
(* Alice's range proof (RangeProofAlice, GG18 Fig. 14)                     *)
(***************************************************************************)
NilRangeProof ==
    [ptr |-> FALSE, Z |-> Nil, U |-> Nil, W |-> Nil, S |-> Nil, S1 |-> Nil,
     S2 |-> Nil]

RangeCommit(pk, NTilde, h1, h2, m, n) ==
    [z |-> MulMod(ModExp(h1, m, NTilde), ModExp(h2, n.rho, NTilde), NTilde),
     u |-> MulMod(ModExp(Gamma(pk), n.alpha, NSquare(pk)),
                  ModExp(n.beta, pk.N, NSquare(pk)), NSquare(pk)),
     w |-> MulMod(ModExp(h1, n.alpha, NTilde),
                  ModExp(h2, n.gamma, NTilde), NTilde)]

RangeTranscript(pk, c, z, u, w) == AsInts(pk) \o <<c, z, u, w>>

\* ProveRangeAlice with the nonces n and the challenge e: [pf, err]
ProveRangeAlice(pk, c, NTilde, h1, h2, m, r, n, e) ==
    IF pk.N = Nil \/ NTilde = Nil \/ h1 = Nil \/ h2 = Nil \/ c = Nil
       \/ m = Nil \/ r = Nil
    THEN [pf |-> NilRangeProof,
          err |-> "ProveRangeAlice constructor received nil value(s)"]
    ELSE LET cm == RangeCommit(pk, NTilde, h1, h2, m, n)
         IN [pf |-> [ptr |-> TRUE, Z |-> cm.z, U |-> cm.u, W |-> cm.w,
                     S |-> MulMod(ModExp(r, e, pk.N), n.beta % pk.N, pk.N),
                     S1 |-> e * m + n.alpha,
                     S2 |-> e * n.rho + n.gamma],
             err |-> "nil"]

\* RangeProofAlice.Verify with the challenge e
RangeProofAliceVerify(pf, pk, NTilde, h1, h2, c, e) ==
    IF ~pf.ptr \/ pf.Z = Nil \/ pf.U = Nil \/ pf.W = Nil \/ pf.S = Nil
       \/ pf.S1 = Nil \/ pf.S2 = Nil \/ pk.N = Nil \/ NTilde = Nil
       \/ h1 = Nil \/ h2 = Nil \/ c = Nil
    THEN FALSE
    ELSE IF pf.S1 > q3 THEN FALSE
    ELSE /\ MulMod(pf.U % NSquare(pk), ModExp(c, e, NSquare(pk)), NSquare(pk))
              = MulMod(ModExp(Gamma(pk), pf.S1, NSquare(pk)),
                       ModExp(pf.S, pk.N, NSquare(pk)), NSquare(pk))
         /\ MulMod(pf.W % NTilde, ModExp(pf.Z, e, NTilde), NTilde)
              = MulMod(ModExp(h1, pf.S1, NTilde),
                       ModExp(h2, pf.S2, NTilde), NTilde)

(***************************************************************************)
(* The MtA driver (crypto/mta/share_protocol.go).  The random draws of a   *)
(* call and the hash values it reads are its last parameter d.             *)
(***************************************************************************)
AliceInit(pkA, a, cA, rA, NTildeB, h1B, h2B, d) ==
    ProveRangeAlice(pkA, cA, NTildeB, h1B, h2B, a, rA, d.n, d.e)

\* the named results of BobMid before anything is assigned; sampled and
\* paillier record whether beta' was drawn and a Paillier operation ran
BobNothing ==
    [beta |-> Nil, cB |-> Nil, betaPrm |-> Nil, piB |-> NilProofBob,
     err |-> "nil", sampled |-> FALSE, paillier |-> FALSE]

\* BobMid and BobMidWC after the range proof is accepted: beta' is drawn,
\* encrypted, and added to b * cA
BobMask_NotAdded(pkA, b, cA, d) ==
    LET enc == Encrypt(pkA, d.betaPrm, d.cRand)
        hm == HomoMult(pkA, b, cA)
        drawn == [BobNothing EXCEPT !.betaPrm = d.betaPrm,
                                    !.sampled = TRUE, !.paillier = TRUE]
    IN IF enc.err # "nil" THEN [drawn EXCEPT !.err = enc.err]
       ELSE IF hm.err # "nil" THEN [drawn EXCEPT !.err = hm.err]
       ELSE [drawn EXCEPT !.cB = hm.c]
BobMask(pkA, b, cA, d) ==
    LET enc == Encrypt(pkA, d.betaPrm, d.cRand)
        hm == HomoMult(pkA, b, cA)
        ha == HomoAdd(pkA, hm.c, enc.c)
        drawn == [BobNothing EXCEPT !.betaPrm = d.betaPrm,
                                    !.sampled = TRUE, !.paillier = TRUE]
    IN IF enc.err # "nil" THEN [drawn EXCEPT !.err = enc.err]
       ELSE IF hm.err # "nil" THEN [drawn EXCEPT !.err = hm.err]
       ELSE IF ha.err # "nil" THEN [drawn EXCEPT !.err = ha.err]
       ELSE [drawn EXCEPT !.cB = ha.c]

\* BobMid and BobMidWC up to the construction of the proof
BobMidCipher_DrawsFirst(pkA, pf, b, cA, NTildeB, h1B, h2B, d) ==
    IF ~RangeProofAliceVerify(pf, pkA, NTildeB, h1B, h2B, cA, d.eRange)
    THEN [BobNothing EXCEPT
            !.betaPrm = d.betaPrm, !.sampled = TRUE,
            !.err = "RangeProofAlice.Verify() returned false"]
    ELSE BobMask(pkA, b, cA, d)
BobMidCipher(pkA, pf, b, cA, NTildeB, h1B, h2B, d) ==
    IF ~RangeProofAliceVerify(pf, pkA, NTildeB, h1B, h2B, cA, d.eRange)
    THEN [BobNothing EXCEPT
            !.err = "RangeProofAlice.Verify() returned false"]
    ELSE BobMask(pkA, b, cA, d)

\* beta = -beta' mod q (BobMid, line 50)
BobShare_NotNegated(betaPrm) == betaPrm % q
BobShare_NotReduced(betaPrm) == 0 - betaPrm
BobShare(betaPrm) == ModSub(0, betaPrm, q)

BobMid(pkA, pf, b, cA, NTildeA, h1A, h2A, NTildeB, h1B, h2B, d) ==
    LET r == BobMidCipher(pkA, pf, b, cA, NTildeB, h1B, h2B, d)
    IN IF r.err # "nil" \/ ~r.sampled THEN r
       ELSE LET pr == ProveBob(pkA, NTildeA, h1A, h2A, cA, r.cB, b,
                               r.betaPrm, d.cRand, d.n, d.e)
            IN [r EXCEPT !.beta = BobShare(r.betaPrm),
                         !.piB = pr.pf, !.err = pr.err]

\* BobMidWC returns (betaPrm, cB, piB, err): it has no result beta
BobMidWC(pkA, pf, b, cA, NTildeA, h1A, h2A, NTildeB, h1B, h2B, B, d) ==
    LET r == BobMidCipher(pkA, pf, b, cA, NTildeB, h1B, h2B, d)
    IN IF r.err # "nil" \/ ~r.sampled THEN r
       ELSE LET pr == ProveBobWC(pkA, NTildeA, h1A, h2A, cA, r.cB, b,
                                 r.betaPrm, d.cRand, B, d.n, d.e)
            IN [r EXCEPT !.piB = pr.pf, !.err = pr.err]

\* the named results of AliceEnd / AliceEndWC before anything is assigned
AliceNothing ==
    [share |-> Nil, rec |-> Nil, rand |-> Nil, err |-> "nil",
     verify |-> "none", decrypted |-> FALSE, panicked |-> FALSE]

AliceEnd_DecryptsFirst(pkA, pf, h1A, h2A, cA, cB, NTildeA, sk, e) ==
    LET v == ProofBobVerify(pf, pkA, NTildeA, h1A, h2A, cA, cB, e)
        dec == Decrypt(sk, cB)
        withV == [AliceNothing EXCEPT !.verify = v, !.decrypted = TRUE]
    IN IF dec.err # "nil" THEN [withV EXCEPT !.err = dec.err]
       ELSE IF v = "panic" THEN [withV EXCEPT !.panicked = TRUE]
       ELSE IF v = "false"
       THEN [withV EXCEPT !.err = "ProofBob.Verify() returned false"]
       ELSE [withV EXCEPT !.share = dec.m % q]
AliceEnd(pkA, pf, h1A, h2A, cA, cB, NTildeA, sk, e) ==
    LET v == ProofBobVerify(pf, pkA, NTildeA, h1A, h2A, cA, cB, e)
        withV == [AliceNothing EXCEPT !.verify = v]
    IN IF v = "panic" THEN [withV EXCEPT !.panicked = TRUE]
       ELSE IF v = "false"
       THEN [withV EXCEPT !.err = "ProofBob.Verify() returned false"]
       ELSE LET dec == Decrypt(sk, cB)
            IN IF dec.err # "nil"
               THEN [withV EXCEPT !.err = dec.err, !.decrypted = TRUE]
               ELSE [withV EXCEPT !.share = dec.m % q, !.decrypted = TRUE]

AliceEndWC(pkA, pf, B, cA, cB, NTildeA, h1A, h2A, sk, e) ==
    LET v == ProofBobWCVerify(pf, pkA, NTildeA, h1A, h2A, cA, cB, B, e)
        withV == [AliceNothing EXCEPT !.verify = v]
    IN IF v = "panic" THEN [withV EXCEPT !.panicked = TRUE]
       ELSE IF v = "false"
       THEN [withV EXCEPT !.err = "ProofBobWC.Verify() returned false"]
       ELSE LET dec == DecryptAndRecoverRandomness(sk, cB)
            IN IF dec.err # "nil"
               THEN [withV EXCEPT !.err = dec.err, !.decrypted = TRUE]
               ELSE [withV EXCEPT !.share = dec.m % q, !.rec = dec.m,
                                  !.rand = dec.x, !.decrypted = TRUE]


(***************************************************************************)
(* One MtA exchange between Alice and Bob.  What Bob sends (cB, the proof, *)
(* and B in the with-check mode) crosses the network, where it may be      *)
(* altered before Alice receives it.                                       *)
(***************************************************************************)
\* ring-Pedersen parameters (NTilde, h1, h2) of Alice and of Bob
RingPedersenA == [NTilde |-> 77, h1 |-> 4, h2 |-> 16]
RingPedersenB == [NTilde |-> 55, h1 |-> 4, h2 |-> 9]

\* the k-th sample of 0 .. n-1: from the bottom for even k, the top for odd
Pick(n, k) == IF k % 2 = 0 THEN (1 + k \div 2) % n ELSE n - 1 - (k \div 2)
\* the same among the units modulo N
PickUnit(N, k) ==
    LET p == IF k % 2 = 0 THEN (2 + k \div 2) % N ELSE N - 1 - (k \div 2)
    IN IF GCD(p, N) = 1 THEN p ELSE 1

NonceIdx == 0 .. (NonceSamples - 1)

\* the nonces of ProveBobWC, steps 1 to 4
BobNonces(pk, NTilde, k) ==
    [alpha |-> Pick(q3, k),
     rho |-> Pick(q * NTilde, k),
     sigma |-> Pick(q * NTilde, k + 1),
     tau |-> Pick(q3 * NTilde, k),
     rhoPrm |-> Pick(q3 * NTilde, k + 1),
     beta |-> PickUnit(pk.N, k),
     gamma |-> Pick(q7, k)]

\* the nonces of ProveRangeAlice
RangeNonces(pk, NTilde, k) ==
    [alpha |-> Pick(q3, k),
     beta |-> PickUnit(pk.N, k),
     gamma |-> Pick(q3 * NTilde, k),
     rho |-> Pick(q * NTilde, k + 1)]

\* beta' <- [0, q^5): low, just below the modulus, and the top of the range
BetaPrmSamples(pk) == {x \in {1, pk.N - 1, q5 - 1} : x < q5}

\* the randomness of Alice's and of Bob's encryption
AliceRandomness == {2}
BobRandomness == {3}

MtAInit ==
    \E key \in PaillierKeys, a \in 0 .. (q - 1), b \in 0 .. (q - 1),
       wc \in BOOLEAN, rA \in AliceRandomness :
       mta = [pc |-> "start", key |-> key, a |-> a, b |-> b, wc |-> wc,
              rA |-> rA,
              cA |-> Encrypt(key, a, rA).c,
              B |-> ScalarBaseMult(b),
              pfA |-> NilRangeProof,
              bob |-> BobNothing,
              wire |-> [cB |-> Nil, piB |-> NilProofBob, B |-> Nil],
              alice |-> AliceNothing,
              oracle |-> <<>>,
              tamper |-> "none"]

\* Alice sends her range proof
MtAAliceInit ==
    /\ mta.pc = "start"
    /\ \E k \in NonceIdx :
         LET n == RangeNonces(mta.key, RingPedersenB.NTilde, k)
             cm == RangeCommit(mta.key, RingPedersenB.NTilde, RingPedersenB.h1,
                               RingPedersenB.h2, mta.a, n)
             tr == RangeTranscript(mta.key, mta.cA, cm.z, cm.u, cm.w)
         IN \E e \in OracleAnswers(mta.oracle, tr) :
              LET res == AliceInit(mta.key, mta.a, mta.cA, mta.rA,
                                   RingPedersenB.NTilde, RingPedersenB.h1,
                                   RingPedersenB.h2, [n |-> n, e |-> e])
              IN mta' = [mta EXCEPT !.pc = "range", !.pfA = res.pf,
                                    !.oracle = OracleRecord(@, tr, e)]
    /\ UNCHANGED <<roundVars, call>>

\* the range proof is altered on its way to Bob
MtATamperRange ==
    /\ mta.pc = "range"
    /\ mta.tamper = "none"
    /\ mta' = [mta EXCEPT !.pfA.S1 = @ + 1, !.tamper = "range"]
    /\ UNCHANGED <<roundVars, call>>

\* Bob's call, BobMid or BobMidWC, on the range proof he received
MtABob(wc) ==
    /\ mta.pc = "range"
    /\ mta.wc = wc
    /\ LET rtr == RangeTranscript(mta.key, mta.cA, mta.pfA.Z, mta.pfA.U,
                                  mta.pfA.W)
       IN \E eR \in OracleAnswers(mta.oracle, rtr),
             bp \in BetaPrmSamples(mta.key), k \in NonceIdx,
             cRand \in BobRandomness :
          LET orc == OracleRecord(mta.oracle, rtr, eR)
              n == BobNonces(mta.key, RingPedersenA.NTilde, k)
              draws == [eRange |-> eR, betaPrm |-> bp, cRand |-> cRand,
                        n |-> n]
              pre == BobMidCipher(mta.key, mta.pfA, mta.b, mta.cA,
                                  RingPedersenB.NTilde, RingPedersenB.h1,
                                  RingPedersenB.h2, draws)
              proves == pre.err = "nil"
              tr == IF proves
                    THEN ProveBobTranscript(mta.key, RingPedersenA.NTilde,
                             RingPedersenA.h1, RingPedersenA.h2, mta.cA,
                             pre.cB, mta.b, pre.betaPrm,
                             IF wc THEN mta.B ELSE Nil, n)
                    ELSE <<>>
          IN \E e \in (IF proves THEN OracleAnswers(orc, tr) ELSE {0}) :
               LET d == [draws EXCEPT !.n = n] @@ [e |-> e]
                   res == IF wc
                          THEN BobMidWC(mta.key, mta.pfA, mta.b, mta.cA,
                                   RingPedersenA.NTilde, RingPedersenA.h1,
                                   RingPedersenA.h2, RingPedersenB.NTilde,
                                   RingPedersenB.h1, RingPedersenB.h2,
                                   mta.B, d)
                          ELSE BobMid(mta.key, mta.pfA, mta.b, mta.cA,
                                   RingPedersenA.NTilde, RingPedersenA.h1,
                                   RingPedersenA.h2, RingPedersenB.NTilde,
                                   RingPedersenB.h1, RingPedersenB.h2, d)
               IN mta' = [mta EXCEPT
                            !.pc = IF res.err = "nil" THEN "bob"
                                   ELSE "bobFailed",
                            !.bob = res,
                            !.wire = [cB |-> res.cB, piB |-> res.piB,
                                      B |-> IF wc THEN mta.B ELSE Nil],
                            !.oracle = IF proves THEN OracleRecord(orc, tr, e)
                                       ELSE orc]
    /\ UNCHANGED <<roundVars, call>>

MtABobMid == MtABob(FALSE)
MtABobMidWC == MtABob(TRUE)

\* what Bob sent is altered on its way to Alice
WireTampers(wc) ==
    IF wc THEN {"T1", "S1nil", "PfNil", "B", "Unil"}
    ELSE {"T1", "S1nil", "PfNil"}

Tampered(wire, kind) ==
    CASE kind = "T1" -> [wire EXCEPT !.piB.T1 = @ + 1]
      [] kind = "S1nil" -> [wire EXCEPT !.piB.S1 = Nil]
      [] kind = "PfNil" -> [wire EXCEPT !.piB = NilProofBob]
      [] kind = "B" -> [wire EXCEPT !.B = (@ + 1) % q]
      [] kind = "Unil" -> [wire EXCEPT !.piB.U = Nil]

MtATamperWire ==
    /\ mta.pc = "bob"
    /\ mta.tamper = "none"
    /\ \E kind \in WireTampers(mta.wc) :
         mta' = [mta EXCEPT !.wire = Tampered(@, kind), !.tamper = kind]
    /\ UNCHANGED <<roundVars, call>>

\* Alice's call, AliceEnd or AliceEndWC, on what she received
MtAAlice(wc) ==
    /\ mta.pc = "bob"
    /\ mta.wc = wc
    /\ LET w == mta.wire
           pf == IF wc THEN w.piB ELSE [w.piB EXCEPT !.bob = TRUE, !.U = Nil]
           hashes == /\ (wc \/ w.piB.ptr)
                     /\ BobVerifyChecks(pf, mta.key, RingPedersenA.NTilde,
                            RingPedersenA.h1, RingPedersenA.h2, mta.cA, w.cB,
                            w.B) = "pass"
           tr == IF hashes
                 THEN BobVerifyTranscript(pf, mta.key, mta.cA, w.cB, w.B)
                 ELSE <<>>
       IN \E e \in (IF hashes THEN OracleAnswers(mta.oracle, tr) ELSE {0}) :
            LET res == IF wc
                       THEN AliceEndWC(mta.key, w.piB, w.B, mta.cA, w.cB,
                                RingPedersenA.NTilde, RingPedersenA.h1,
                                RingPedersenA.h2, mta.key, e)
                       ELSE AliceEnd(mta.key, w.piB, RingPedersenA.h1,
                                RingPedersenA.h2, mta.cA, w.cB,
                                RingPedersenA.NTilde, mta.key, e)
            IN mta' = [mta EXCEPT
                         !.pc = "done", !.alice = res,
                         !.oracle = IF hashes THEN OracleRecord(@, tr, e)
                                    ELSE @]
    /\ UNCHANGED <<roundVars, call>>

MtAAliceEnd == MtAAlice(FALSE)
MtAAliceEndWC == MtAAlice(TRUE)

MtANext ==
    \/ MtAAliceInit
    \/ MtATamperRange
    \/ MtABobMid
    \/ MtABobMidWC
    \/ MtATamperWire
    \/ MtAAliceEnd
    \/ MtAAliceEndWC

InitMtA == RoundIdle /\ MtAInit /\ CallIdle

SpecMtA == InitMtA /\ [][MtANext]_vars


(***************************************************************************)
(* Single calls of Bob's prover and verifier: ProveBob / ProveBobWC on     *)
(* arguments of which one may be absent, then Verify on the proof, as it   *)
(* was returned or with one component changed.                             *)
(***************************************************************************)
\* the pointer arguments of ProveBobWC that line 39 tests
ProverArguments == {"pk", "NTilde", "h1", "h2", "c1", "c2", "x", "y", "r"}
\* the call: ProveBob, ProveBobWC with X = xG, ProveBobWC with X absent
ProverCalls == {"ProveBob", "ProveBobWC", "ProveBobWC/noX"}
\* Bob's second secret y in [0, q^5), as far as pk can encrypt it
ProverMasks(pk) == {y \in {0, 1, pk.N - 1, q5 - 1} : y < q5 /\ y < pk.N}

\* honest arguments for the secrets x, y: c1 encrypts Alice's value,
\* c2 = c1^x * Enc(y; r) mod N^2; the argument named absent is nil
ProverArgs(key, x, y, absent) ==
    LET c1 == Encrypt(key, 1, 2).c
        r == 3
        c2 == MulMod(ModExp(c1, x, NSquare(key)), Encrypt(key, y, r).c,
                     NSquare(key))
        arg(name, v) == IF absent = name THEN Nil ELSE v
    IN [pk |-> IF absent = "pk" THEN [key EXCEPT !.N = Nil] ELSE key,
        NTilde |-> arg("NTilde", RingPedersenA.NTilde),
        h1 |-> arg("h1", RingPedersenA.h1),
        h2 |-> arg("h2", RingPedersenA.h2),
        c1 |-> arg("c1", c1), c2 |-> arg("c2", c2),
        x |-> arg("x", x), y |-> arg("y", y), r |-> arg("r", r)]

NoProof == [pf |-> NilProofBob, err |-> "nil", sampled |-> FALSE]

ProofInit ==
    \E key \in PaillierKeys, x \in 0 .. (q - 1), fn \in ProverCalls,
       absent \in ProverArguments \cup {"none"} :
       \E y \in ProverMasks(key) :
          call = [pc |-> "args", fn |-> fn, absent |-> absent, key |-> key,
                  args |-> ProverArgs(key, x, y, absent),
                  X |-> IF fn = "ProveBobWC" THEN ScalarBaseMult(x) ELSE Nil,
                  res |-> NoProof,
                  given |-> [pf |-> NilProofBob, X |-> Nil],
                  altered |-> "none", verdict |-> "none", oracle |-> <<>>]

\* the call of ProveBob / ProveBobWC
ProofProve ==
    /\ call.pc = "args"
    /\ \E k \in NonceIdx :
         LET a == call.args
             n == BobNonces(call.key, RingPedersenA.NTilde, k)
             refused == ProveBobNilArgument(a.pk, a.NTilde, a.h1, a.h2, a.c1,
                                            a.c2, a.x, a.y, a.r)
             tr == IF refused THEN <<>>
                   ELSE ProveBobTranscript(a.pk, a.NTilde, a.h1, a.h2, a.c1,
                                           a.c2, a.x, a.y, call.X, n)
         IN \E e \in (IF refused THEN {0} ELSE OracleAnswers(call.oracle, tr)) :
              LET res == IF call.fn = "ProveBob"
                         THEN ProveBob(a.pk, a.NTilde, a.h1, a.h2, a.c1, a.c2,
                                       a.x, a.y, a.r, n, e)
                         ELSE ProveBobWC(a.pk, a.NTilde, a.h1, a.h2, a.c1,
                                         a.c2, a.x, a.y, a.r, call.X, n, e)
              IN call' = [call EXCEPT
                            !.pc = IF res.err = "nil" THEN "proved"
                                   ELSE "refused",
                            !.res = res,
                            !.given = [pf |-> res.pf, X |-> call.X],
                            !.oracle = IF refused THEN @
                                       ELSE OracleRecord(@, tr, e)]
    /\ UNCHANGED <<roundVars, mta>>

\* the smallest proper factor of m
FirstFactor(m) == CHOOSE d \in 2 .. m : m % d = 0

\* the ways one component of what the verifier is given may differ
Alterations(fn) ==
    {"Z0", "ZOut", "ZFactor", "ZPrmFactor", "TOut", "WFactor", "V0", "VOut",
     "VFactor", "S0", "SOut", "SFactor", "S1Over", "T1Over", "S2", "T2"}
      \cup (IF fn = "ProveBobWC" THEN {"U", "X"} ELSE {})

Altered(g, kind, pk, NTilde) ==
    CASE kind = "Z0" -> [g EXCEPT !.pf.Z = 0]
      [] kind = "ZOut" -> [g EXCEPT !.pf.Z = @ + NTilde]
      [] kind = "ZFactor" -> [g EXCEPT !.pf.Z = FirstFactor(NTilde)]
      [] kind = "ZPrmFactor" -> [g EXCEPT !.pf.ZPrm = FirstFactor(NTilde)]
      [] kind = "TOut" -> [g EXCEPT !.pf.T = @ + NTilde]
      [] kind = "WFactor" -> [g EXCEPT !.pf.W = FirstFactor(NTilde)]
      [] kind = "V0" -> [g EXCEPT !.pf.V = 0]
      [] kind = "VOut" -> [g EXCEPT !.pf.V = @ + NSquare(pk)]
      [] kind = "VFactor" -> [g EXCEPT !.pf.V = FirstFactor(pk.N)]
      [] kind = "S0" -> [g EXCEPT !.pf.S = 0]
      [] kind = "SOut" -> [g EXCEPT !.pf.S = @ + pk.N]
      [] kind = "SFactor" -> [g EXCEPT !.pf.S = FirstFactor(pk.N)]
      [] kind = "S1Over" -> [g EXCEPT !.pf.S1 = q3 + 1]
      [] kind = "T1Over" -> [g EXCEPT !.pf.T1 = q7 + 1]
      [] kind = "S2" -> [g EXCEPT !.pf.S2 = @ + 1]
      [] kind = "T2" -> [g EXCEPT !.pf.T2 = @ + 1]
      [] kind = "U" -> [g EXCEPT !.pf.U = (@ + 1) % q]
      [] kind = "X" -> [g EXCEPT !.X = (@ + 1) % q]

ProofAlter ==
    /\ call.pc = "proved"
    /\ call.altered = "none"
    /\ \E kind \in Alterations(call.fn) :
         call' = [call EXCEPT
                    !.given = Altered(@, kind, call.key, call.args.NTilde),
                    !.altered = kind]
    /\ UNCHANGED <<roundVars, mta>>

\* the call of ProofBob.Verify / ProofBobWC.Verify on what is given
ProofVerify ==
    /\ call.pc = "proved"
    /\ LET a == call.args
           g == call.given
           pf == IF call.fn = "ProveBob"
                 THEN [g.pf EXCEPT !.bob = TRUE, !.U = Nil] ELSE g.pf
           hashes == BobVerifyChecks(pf, a.pk, a.NTilde, a.h1, a.h2, a.c1,
                                     a.c2, g.X) = "pass"
           tr == IF hashes
                 THEN BobVerifyTranscript(pf, a.pk, a.c1, a.c2, g.X)
                 ELSE <<>>
       IN \E e \in (IF hashes THEN OracleAnswers(call.oracle, tr) ELSE {0}) :
            call' = [call EXCEPT
                       !.pc = "verified",
                       !.verdict =
                          IF call.fn = "ProveBob"
                          THEN ProofBobVerify(g.pf, a.pk, a.NTilde, a.h1,
                                              a.h2, a.c1, a.c2, e)
                          ELSE ProofBobWCVerify(g.pf, a.pk, a.NTilde, a.h1,
                                                a.h2, a.c1, a.c2, g.X, e),
                       !.oracle = IF hashes THEN OracleRecord(@, tr, e)
                                  ELSE @]
    /\ UNCHANGED <<roundVars, mta>>

ProofNext == ProofProve \/ ProofAlter \/ ProofVerify

InitProof == RoundIdle /\ MtAIdle /\ ProofInit

SpecProof == InitProof /\ [][ProofNext]_vars

(***************************************************************************)
(* The encoding of Bob's proofs as byte parts: Bytes, then FromBytes on    *)
(* the parts as they were returned or after parts were dropped, added or   *)
(* emptied.                                                                *)
(***************************************************************************)
ProofBobBytesParts == 10
ProofBobWCBytesParts == 12
\* the longest list of parts a decoder is handed
MaxParts == 13

\* big.Int.Bytes: the big-endian bytes of a natural; none for zero
RECURSIVE BigIntBytes(_)
BigIntBytes(n) ==
    IF n = 0 THEN <<>> ELSE Append(BigIntBytes(n \div 256), n % 256)

\* the components of a ProofBob in the order of Bytes and FromBytes
ProofBobFields == <<"Z", "ZPrm", "T", "V", "W", "S", "S1", "S2", "T1", "T2">>

\* ProofBob.ValidateBasic
ProofBobValidateBasic(pf) ==
    \A i \in 1 .. Len(ProofBobFields) : pf[ProofBobFields[i]] # Nil

\* ProofBobWC.ValidateBasic: TRUE, FALSE or "panic"
ProofBobWCValidateBasic(pf) ==
    IF ~pf.bob THEN "panic" ELSE ProofBobValidateBasic(pf) /\ pf.U # Nil

\* ProofBob.Bytes: [bzs, panic]; a nil component is dereferenced
ProofBobBytes(pf) ==
    IF ~pf.ptr \/ ~ProofBobValidateBasic(pf)
    THEN [bzs |-> <<>>, panic |-> TRUE]
    ELSE [bzs |-> [i \in 1 .. ProofBobBytesParts |->
                     BigIntBytes(pf[ProofBobFields[i]])],
          panic |-> FALSE]

\* ProofBobWC.Bytes
ProofBobWCBytes(pf) ==
    LET bob == ProofBobBytes(pf)
    IN IF ~pf.bob \/ bob.panic \/ pf.U = Nil
       THEN [bzs |-> <<>>, panic |-> TRUE]
       ELSE [bzs |-> SubSeq(bob.bzs \o <<BigIntBytes(PointX(pf.U)),
                                         BigIntBytes(PointY(pf.U))>>,
                            1, ProofBobWCBytesParts),
             panic |-> FALSE]

\* common.NonEmptyMultiBytes(bzs, expectLen)
NonEmptyMultiBytes(bzs, expectLen) ==
    /\ Len(bzs) # 0
    /\ Len(bzs) = expectLen
    /\ \A i \in 1 .. Len(bzs) : Len(bzs[i]) > 0

\* crypto.NewECPoint(curve, x, y): [P, err]; the point must be on the curve
NewECPoint(x, y) ==
    IF \E P \in 1 .. (q - 1) : PointX(P) = x /\ PointY(P) = y
    THEN [P |-> CHOOSE P \in 1 .. (q - 1) : PointX(P) = x /\ PointY(P) = y,
          err |-> "nil"]
    ELSE [P |-> Nil, err |-> "NewECPoint: the given point is not on the elliptic curve"]

\* the results of a decoder before anything is assigned
NotDecoded == [pf |-> NilProofBob, err |-> "nil", panic |-> FALSE]

\* ProofBobFromBytes: [pf, err, panic]
ProofBobFromBytes_SwapsResponses(bzs) ==
    IF ~NonEmptyMultiBytes(bzs, ProofBobBytesParts)
       /\ ~NonEmptyMultiBytes(bzs, ProofBobWCBytesParts)
    THEN [NotDecoded EXCEPT
            !.err = "expected 10 byte parts to construct ProofBob, or 12 for ProofBobWC"]
    ELSE [NotDecoded EXCEPT
            !.pf = [ptr |-> TRUE, bob |-> TRUE,
                    Z |-> SetBytes(bzs[1]), ZPrm |-> SetBytes(bzs[2]),
                    T |-> SetBytes(bzs[3]), V |-> SetBytes(bzs[4]),
                    W |-> SetBytes(bzs[5]), S |-> SetBytes(bzs[6]),
                    S1 |-> SetBytes(bzs[8]), S2 |-> SetBytes(bzs[7]),
                    T1 |-> SetBytes(bzs[9]), T2 |-> SetBytes(bzs[10]),
                    U |-> Nil]]
ProofBobFromBytes(bzs) ==
    IF ~NonEmptyMultiBytes(bzs, ProofBobBytesParts)
       /\ ~NonEmptyMultiBytes(bzs, ProofBobWCBytesParts)
    THEN [NotDecoded EXCEPT
            !.err = "expected 10 byte parts to construct ProofBob, or 12 for ProofBobWC"]
    ELSE [NotDecoded EXCEPT
            !.pf = [ptr |-> TRUE, bob |-> TRUE,
                    Z |-> SetBytes(bzs[1]), ZPrm |-> SetBytes(bzs[2]),
                    T |-> SetBytes(bzs[3]), V |-> SetBytes(bzs[4]),
                    W |-> SetBytes(bzs[5]), S |-> SetBytes(bzs[6]),
                    S1 |-> SetBytes(bzs[7]), S2 |-> SetBytes(bzs[8]),
                    T1 |-> SetBytes(bzs[9]), T2 |-> SetBytes(bzs[10]),
                    U |-> Nil]]

\* ProofBobWCFromBytes: bzs[10] and bzs[11] are indexed without a test of
\* the length
ProofBobWCFromBytes(bzs) ==
    LET bob == ProofBobFromBytes(bzs)
    IN IF bob.err # "nil" THEN bob
       ELSE IF Len(bzs) < ProofBobWCBytesParts
       THEN [NotDecoded EXCEPT !.panic = TRUE]
       ELSE LET point == NewECPoint(SetBytes(bzs[11]), SetBytes(bzs[12]))
            IN IF point.err # "nil" THEN [NotDecoded EXCEPT !.err = point.err]
               ELSE [bob EXCEPT !.pf.U = point.P]

\* a proof with a different value in each component
DistinctProof(wc) ==
    [ptr |-> TRUE, bob |-> TRUE, Z |-> 257, ZPrm |-> 258, T |-> 259,
     V |-> 260, W |-> 261, S |-> 262, S1 |-> 263, S2 |-> 264, T1 |-> 265,
     T2 |-> 266, U |-> IF wc THEN 1 ELSE Nil]

\* the values one component takes: absent, zero, one byte, two, three
ComponentSamples == {Nil, 0, 1, 255, 256, 65536}

CodecInit ==
    \E wc \in BOOLEAN, i \in 1 .. (Len(ProofBobFields) + 1),
       v \in ComponentSamples \cup (0 .. (q - 1)) :
       /\ IF i <= Len(ProofBobFields) THEN v \in ComponentSamples
          ELSE wc /\ v \in {Nil} \cup (0 .. (q - 1))
       /\ call = [pc |-> "proof", wc |-> wc,
                  pf |-> IF i <= Len(ProofBobFields)
                         THEN [DistinctProof(wc) EXCEPT ![ProofBobFields[i]] = v]
                         ELSE [DistinctProof(wc) EXCEPT !.U = v],
                  bzs |-> <<>>, mangled |-> FALSE, fn |-> "none",
                  decoded |-> NotDecoded]

\* pf.Bytes()
CodecEncode ==
    /\ call.pc = "proof"
    /\ LET res == IF call.wc THEN ProofBobWCBytes(call.pf)
                  ELSE ProofBobBytes(call.pf)
       IN call' = [call EXCEPT
                     !.pc = IF res.panic THEN "panicked" ELSE "bytes",
                     !.bzs = res.bzs]
    /\ UNCHANGED <<roundVars, mta>>

\* the parts reach the decoder cut or padded to n parts, or with part i empty
CodecMangle ==
    /\ call.pc = "bytes"
    /\ ~call.mangled
    /\ \/ \E n \in 0 .. MaxParts :
            /\ n # Len(call.bzs)
            /\ call' = [call EXCEPT
                          !.bzs = [k \in 1 .. n |->
                                     IF k <= Len(call.bzs) THEN call.bzs[k]
                                     ELSE <<1>>],
                          !.mangled = TRUE]
       \/ \E i \in 1 .. Len(call.bzs) :
            /\ call.bzs[i] # <<>>
            /\ call' = [call EXCEPT !.bzs[i] = <<>>, !.mangled = TRUE]
    /\ UNCHANGED <<roundVars, mta>>

\* ProofBobFromBytes(bzs) or ProofBobWCFromBytes(bzs)
CodecDecode ==
    /\ call.pc = "bytes"
    /\ \E fn \in {"ProofBobFromBytes", "ProofBobWCFromBytes"} :
         LET res == IF fn = "ProofBobFromBytes" THEN ProofBobFromBytes(call.bzs)
                    ELSE ProofBobWCFromBytes(call.bzs)
         IN call' = [call EXCEPT !.pc = "decoded", !.fn = fn,
                                 !.decoded = res]
    /\ UNCHANGED <<roundVars, mta>>

CodecNext == CodecEncode \/ CodecMangle \/ CodecDecode

InitCodec == RoundIdle /\ MtAIdle /\ CodecInit

SpecCodec == InitCodec /\ [][CodecNext]_vars

(***************************************************************************)
(* tss.Parameters and tss.ReSharingParameters.  A peer context holds a Go  *)
(* slice of party identities: a window [off, off + len) of a backing       *)
(* array, with the capacity that is left in the array behind it.           *)
(***************************************************************************)
\* time.Minute in seconds
Minute == 60
defaultSafePrimeGenTimeout == 5 * Minute

\* the parties of the longest backing array
MaxParties == 4

\* the timeouts a caller passes, in seconds
TimeoutSamples == {0, Minute, 2 * defaultSafePrimeGenTimeout}

\* a *PartyID: the object and its key
PartyIDOf(id, key) == [id |-> id, key |-> key]

\* the backing arrays of the identities, sorted by key; "fresh" is the
\* array an append allocates
ArraysInit ==
    [all |-> [k \in 1 .. MaxParties |-> PartyIDOf(10 + k, k)],
     others |-> [k \in 1 .. 2 |-> PartyIDOf(20 + k, k + 1)],
     fresh |-> <<>>]

\* the slices arr[off : off + len] that hold at least one party
SlicesOf(arrays, arr) ==
    {sl \in [arr : {arr}, off : 0 .. (Len(arrays[arr]) - 1),
             len : 1 .. Len(arrays[arr])] :
       sl.off + sl.len <= Len(arrays[arr])}

NilContext == [arr |-> "fresh", off |-> 0, len |-> 0]

\* cap(slice)
Cap(arrays, sl) == Len(arrays[sl.arr]) - sl.off

\* PeerContext.IDs(): the slice the context holds
IDs(arrays, ctx) == [k \in 1 .. ctx.len |-> arrays[ctx.arr][ctx.off + k]]

\* append(sl, elems...): [arrays, ids]; in place when the capacity of sl
\* suffices, else into a fresh array
GoAppend(arrays, sl, elems) ==
    IF sl.len + Len(elems) <= Cap(arrays, sl)
    THEN LET written == [k \in 1 .. Len(arrays[sl.arr]) |->
                           IF /\ k > sl.off + sl.len
                              /\ k <= sl.off + sl.len + Len(elems)
                           THEN elems[k - sl.off - sl.len]
                           ELSE arrays[sl.arr][k]]
             into == [arrays EXCEPT ![sl.arr] = written]
         IN [arrays |-> into,
             ids |-> IDs(into, [sl EXCEPT !.len = sl.len + Len(elems)])]
    ELSE [arrays |-> [arrays EXCEPT !.fresh = IDs(arrays, sl) \o elems],
          ids |-> IDs(arrays, sl) \o elems]

NilParameters ==
    [ptr |-> FALSE, resharing |-> FALSE, partyID |-> PartyIDOf(0, 0),
     parties |-> NilContext, partyCount |-> 0, threshold |-> 0,
     safePrimeGenTimeout |-> 0, unsafeKGIgnoreH1H2Dupes |-> FALSE,
     newParties |-> NilContext, newPartyCount |-> 0, newThreshold |-> 0]

\* NewParameters: [params, panic]
NewParameters_IgnoresOption(ctx, partyID, partyCount, threshold, optional) ==
    IF 1 < Len(optional)
    THEN [params |-> NilParameters, panic |-> TRUE]
    ELSE [params |-> [NilParameters EXCEPT
                        !.ptr = TRUE, !.parties = ctx, !.partyID = partyID,
                        !.partyCount = partyCount, !.threshold = threshold,
                        !.safePrimeGenTimeout = defaultSafePrimeGenTimeout],
          panic |-> FALSE]
NewParameters(ctx, partyID, partyCount, threshold, optional) ==
    IF 1 < Len(optional)
    THEN [params |-> NilParameters, panic |-> TRUE]
    ELSE [params |-> [NilParameters EXCEPT
                        !.ptr = TRUE, !.parties = ctx, !.partyID = partyID,
                        !.partyCount = partyCount, !.threshold = threshold,
                        !.safePrimeGenTimeout =
                            IF 0 < Len(optional) THEN optional[1]
                            ELSE defaultSafePrimeGenTimeout],
          panic |-> FALSE]

SafePrimeGenTimeout(params) == params.safePrimeGenTimeout

UNSAFE_KGIgnoreH1H2Dupes(params) == params.unsafeKGIgnoreH1H2Dupes

UNSAFE_setKGIgnoreH1H2Dupes(params, unsafeKGIgnoreH1H2Dupes) ==
    [params EXCEPT !.unsafeKGIgnoreH1H2Dupes = unsafeKGIgnoreH1H2Dupes]

NewReSharingParameters(ctx, newCtx, partyID, n, t, newN, newT) ==
    LET params == NewParameters(ctx, partyID, n, t, <<>>)
    IN [params EXCEPT !.params.resharing = TRUE,
                      !.params.newParties = newCtx,
                      !.params.newPartyCount = newN,
                      !.params.newThreshold = newT]

OldParties(rgParams) == rgParams.parties
OldPartyCount(rgParams) == rgParams.partyCount
NewParties(rgParams) == rgParams.newParties
NewPartyCount(rgParams) == rgParams.newPartyCount

\* OldAndNewParties: [arrays, ids]
OldAndNewParties(arrays, rgParams) ==
    GoAppend(arrays, OldParties(rgParams),
             IDs(arrays, NewParties(rgParams)))

OldAndNewPartyCount(rgParams) ==
    OldPartyCount(rgParams) + NewPartyCount(rgParams)

IsOldCommittee(arrays, rgParams) ==
    \E j \in 1 .. rgParams.parties.len :
       rgParams.partyID.key = IDs(arrays, rgParams.parties)[j].key

IsNewCommittee(arrays, rgParams) ==
    \E j \in 1 .. rgParams.newParties.len :
       rgParams.partyID.key = IDs(arrays, rgParams.newParties)[j].key

NoAnswers ==
    [isOld |-> FALSE, isNew |-> FALSE, count |-> 0, ids |-> <<>>]

\* before construction: the arrays, the two contexts and the local party
ParamsInit ==
    \E ctx \in SlicesOf(ArraysInit, "all"),
       newCtx \in SlicesOf(ArraysInit, "all") \cup SlicesOf(ArraysInit, "others"),
       key \in 1 .. (MaxParties + 1) :
       call = [pc |-> "new", op |-> "none", arrays |-> ArraysInit,
               ctx |-> ctx, newCtx |-> newCtx,
               partyID |-> PartyIDOf(0, key), opts |-> <<>>,
               oldIDs |-> IDs(ArraysInit, ctx),
               newIDs |-> IDs(ArraysInit, newCtx),
               params |-> NilParameters, answers |-> NoAnswers]

\* tss.NewParameters(ctx, partyID, partyCount, threshold, opts...)
CallNewParameters ==
    /\ call.pc = "new"
    /\ \E opts \in {<<>>} \cup {<<t>> : t \in TimeoutSamples}
                   \cup {<<t, u>> : t, u \in TimeoutSamples} :
         LET res == NewParameters(call.ctx, call.partyID, call.ctx.len,
                                  call.ctx.len - 1, opts)
         IN call' = [call EXCEPT
                       !.pc = IF res.panic THEN "panicked" ELSE "params",
                       !.op = "NewParameters", !.opts = opts,
                       !.params = res.params]
    /\ UNCHANGED <<roundVars, mta>>

\* tss.NewReSharingParameters(ctx, newCtx, partyID, ...)
CallNewReSharingParameters ==
    /\ call.pc = "new"
    /\ LET res == NewReSharingParameters(call.ctx, call.newCtx, call.partyID,
                                         call.ctx.len, call.ctx.len - 1,
                                         call.newCtx.len, call.newCtx.len - 1)
       IN call' = [call EXCEPT !.pc = "params",
                               !.op = "NewReSharingParameters",
                               !.params = res.params]
    /\ UNCHANGED <<roundVars, mta>>

\* params.UNSAFE_setKGIgnoreH1H2Dupes(b)
CallSetIgnoreDupes ==
    /\ call.pc = "params"
    /\ \E b \in BOOLEAN :
         call' = [call EXCEPT
                    !.op = "UNSAFE_setKGIgnoreH1H2Dupes",
                    !.params = UNSAFE_setKGIgnoreH1H2Dupes(call.params, b)]
    /\ UNCHANGED <<roundVars, mta>>

\* IsOldCommittee(), IsNewCommittee() and OldAndNewPartyCount()
CallCommittee ==
    /\ call.pc = "params"
    /\ call.params.resharing
    /\ call.op # "Committee"
    /\ call' = [call EXCEPT
                  !.op = "Committee",
                  !.answers.isOld = IsOldCommittee(call.arrays, call.params),
                  !.answers.isNew = IsNewCommittee(call.arrays, call.params),
                  !.answers.count = OldAndNewPartyCount(call.params)]
    /\ UNCHANGED <<roundVars, mta>>

\* OldAndNewParties()
CallOldAndNewParties ==
    /\ call.pc = "params"
    /\ call.params.resharing
    /\ LET res == OldAndNewParties(call.arrays, call.params)
       IN call' = [call EXCEPT !.pc = "joined", !.op = "OldAndNewParties",
                               !.arrays = res.arrays,
                               !.answers.ids = res.ids]
    /\ UNCHANGED <<roundVars, mta>>

ParamsNext ==
    \/ CallNewParameters
    \/ CallNewReSharingParameters
    \/ CallSetIgnoreDupes
    \/ CallCommittee
    \/ CallOldAndNewParties

InitParams == RoundIdle /\ MtAIdle /\ ParamsInit

SpecParams == InitParams /\ [][ParamsNext]_vars

(***************************************************************************)
(* Properties of the MtA exchange (SpecMtA)                                *)
(***************************************************************************)
\* the exchange has run to the end and every call returned without error
MtASucceeded(wc) ==
    /\ mta.pc = "done"
    /\ mta.wc = wc
    /\ mta.bob.err = "nil"
    /\ mta.alice.err = "nil"
    /\ ~mta.alice.panicked

\* the plaintext a*b + beta' does not wrap around Alice's modulus
NoWrap == mta.a * mta.b + mta.bob.betaPrm < mta.key.N

\* C1: after AliceInit, BobMid and AliceEnd have all returned without error,
\* for a, b in [0, q) and a modulus N with a*b + beta' < N, the beta of
\* BobMid and the alpha of AliceEnd satisfy (alpha + beta) mod q = a*b mod q.
C1_MtACorrect ==
    (MtASucceeded(FALSE) /\ NoWrap)
      => (mta.alice.share + mta.bob.beta) % q = (mta.a * mta.b) % q

C1_Witness ==
    /\ MtASucceeded(FALSE)
    /\ NoWrap
    /\ mta.a = 2
    /\ mta.b = 2
    /\ mta.bob.betaPrm = q5 - 1
    /\ mta.alice.share # Nil

\* C2 as claimed: after AliceInit, BobMidWC and AliceEndWC have all succeeded
\* (same conditions as C1), mu plus the share BobMidWC hands back is a*b mod q.
\* BobMidWC hands back betaPrm.
C2_Original ==
    (MtASucceeded(TRUE) /\ NoWrap)
      => (mta.alice.share + mta.bob.betaPrm) % q = (mta.a * mta.b) % q

\* C2 amended: BobMidWC returns the mask betaPrm and no share; with Bob's
\* share taken as -betaPrm mod q, (mu + share) mod q = a*b mod q, and the
\* unreduced muIJRec is a*b + betaPrm.
C2_MtAWCCorrect ==
    (MtASucceeded(TRUE) /\ NoWrap)
      => /\ (mta.alice.share + ((0 - mta.bob.betaPrm) % q)) % q
              = (mta.a * mta.b) % q
         /\ mta.alice.rec = mta.a * mta.b + mta.bob.betaPrm
         /\ mta.bob.beta = Nil

C2_Witness ==
    /\ MtASucceeded(TRUE)
    /\ NoWrap
    /\ mta.a = 2
    /\ mta.b = 1
    /\ mta.bob.betaPrm = 1
    /\ mta.alice.share = 0

\* the hash value of a transcript Bob or Alice has hashed
Hashed(tr) == IF tr \in DOMAIN mta.oracle THEN mta.oracle[tr] ELSE 0

\* what RangeProofAlice.Verify answers on the proof Bob was handed
RangeVerdict ==
    RangeProofAliceVerify(mta.pfA, mta.key, RingPedersenB.NTilde,
        RingPedersenB.h1, RingPedersenB.h2, mta.cA,
        Hashed(RangeTranscript(mta.key, mta.cA, mta.pfA.Z, mta.pfA.U,
                               mta.pfA.W)))

\* C4: whenever RangeProofAlice.Verify answers false, BobMid / BobMidWC
\* returns an error and nothing else: no beta, cB, betaPrm or proof, beta'
\* was not sampled and no Paillier operation ran.
C4_BobAbortsOnBadRangeProof ==
    (mta.pc \in {"bob", "bobFailed", "done"} /\ ~RangeVerdict)
      => /\ mta.bob.err # "nil"
         /\ mta.bob.beta = Nil
         /\ mta.bob.cB = Nil
         /\ mta.bob.betaPrm = Nil
         /\ ~mta.bob.piB.ptr
         /\ ~mta.bob.sampled
         /\ ~mta.bob.paillier

C4_Witness ==
    /\ mta.pc = "bobFailed"
    /\ mta.tamper = "range"
    /\ ~RangeVerdict
    /\ mta.bob.err = "RangeProofAlice.Verify() returned false"

\* what the verification of Bob's proof answers on what Alice was handed
WireVerdict ==
    LET w == mta.wire
    IN IF mta.wc
       THEN ProofBobWCVerify(w.piB, mta.key, RingPedersenA.NTilde,
                RingPedersenA.h1, RingPedersenA.h2, mta.cA, w.cB, w.B,
                Hashed(BobVerifyTranscript(w.piB, mta.key, mta.cA, w.cB, w.B)))
       ELSE ProofBobVerify(w.piB, mta.key, RingPedersenA.NTilde,
                RingPedersenA.h1, RingPedersenA.h2, mta.cA, w.cB,
                Hashed(BobVerifyTranscript(
                           [w.piB EXCEPT !.bob = TRUE, !.U = Nil], mta.key,
                           mta.cA, w.cB, w.B)))

\* C5: whenever Bob's proof fails verification, AliceEnd / AliceEndWC returns
\* an error and no share and has not decrypted cB; a share is returned only
\* when the verification answered true.
C5_AliceVerifiesBeforeDecrypting ==
    mta.pc = "done"
      => /\ WireVerdict = "false"
              => /\ mta.alice.err # "nil"
                 /\ mta.alice.share = Nil
                 /\ mta.alice.rec = Nil
                 /\ mta.alice.rand = Nil
                 /\ ~mta.alice.decrypted
         /\ mta.alice.share # Nil => WireVerdict = "true"
         /\ mta.alice.decrypted => WireVerdict = "true"

C5_Witness ==
    /\ mta.pc = "done"
    /\ mta.tamper = "T1"
    /\ WireVerdict = "false"
    /\ mta.alice.err # "nil"

\* C6 as claimed: the verification of Bob's proof always answers true or
\* false, whatever proof it is handed, and never fails abruptly.
C6_VerifyTotal ==
    mta.pc = "done" => (WireVerdict \in {"true", "false"} /\ ~mta.alice.panicked)

(***************************************************************************)
(* Properties of round 2                                                   *)
(***************************************************************************)
roundState == <<started, number, ok, temp, out>>

\* C7 as claimed: over any sequence of Start, Update and NextRound calls at
\* most one Start call succeeds; every Start call after it is rejected with
\* "round already started", emits nothing and leaves the round unchanged.
C7_Original ==
    [][(ret'.op = "Start" /\ calls.StartOk >= 1)
         => /\ ret'.val = "round already started"
            /\ roundState' = roundState]_vars

\* C7 amended: at most one Start call succeeds between two NextRound calls;
\* while started is set every Start call is rejected, emits nothing and
\* leaves the round unchanged; NextRound clears the flag, after which Start
\* succeeds again.
C7_StartOncePerStartedPeriod ==
    /\ [](calls.StartOk <= calls.NextRound + 1)
    /\ [][/\ (ret'.op = "Start" /\ started)
               => /\ ret'.val = "round already started"
                  /\ roundState' = roundState
          /\ (ret'.op = "Start" /\ ret'.val = "nil") => (~started /\ started')
          /\ (started /\ ~started') => ret'.op = "NextRound"]_vars

C7_Witness ==
    /\ ret.op = "Start"
    /\ ret.val = "round already started"
    /\ calls.StartOk = 1
    /\ Len(out) = 1

\* a slot holds nothing acceptable: it is empty, or its message is not a
\* broadcast SignRound2Message
Rejectable(msg) ==
    msg = NilMsg \/ msg.type # "SignRound2Message" \/ ~msg.broadcast

\* C8 as claimed: Update marks ok[j] for each not-yet-ok slot holding a
\* broadcast SignRound2Message, returns true iff every ok[j] then holds,
\* returns false if any slot is empty or holds a rejectable message, and
\* never returns an error.
C8_Original ==
    [][ret'.op = "Update"
         => /\ \A j \in Parties :
                 ok'[j] = (ok[j] \/ ~Rejectable(temp'.signRound2Messages[j]))
            /\ (ret'.val = "true") = (\A j \in Parties : ok'[j])
            /\ (\E j \in Parties : Rejectable(temp'.signRound2Messages[j]))
                 => ret'.val = "false"
            /\ ret'.val \in {"true", "false"}]_vars

\* C8 amended: as claimed, except that Update returns false if any slot not
\* yet marked ok is empty or holds a rejectable message; a slot already
\* marked ok is not looked at again.
C8_UpdateReadiness ==
    [][ret'.op = "Update"
         => /\ \A j \in Parties :
                 ok'[j] = (ok[j] \/ ~Rejectable(temp'.signRound2Messages[j]))
            /\ (ret'.val = "true") = (\A j \in Parties : ok'[j])
            /\ (\E j \in Parties :
                  ~ok[j] /\ Rejectable(temp'.signRound2Messages[j]))
                 => ret'.val = "false"
            /\ ret'.val \in {"true", "false"}]_vars

C8_Witness ==
    /\ ret.op = "Update"
    /\ ret.val = "false"
    /\ \E j \in Parties :
         /\ ~ok[j]
         /\ temp.signRound2Messages[j] # NilMsg
         /\ ~temp.signRound2Messages[j].broadcast
    /\ \E j \in Parties \ {partyIndex} : ok[j]

\* C9: round 2 does not report ready, and the engine does not move on to
\* round 3, before round 2's Start has written its SignRound2Message to the
\* sink.
C9_EmitBeforeReady ==
    ((ret.op = "Update" /\ ret.val = "true") \/ calls.NextRound > 0)
      => \E k \in 1 .. Len(out) :
           /\ out[k].type = "SignRound2Message"
           /\ out[k].from = partyIndex
           /\ out[k] = temp.signRound2Messages[partyIndex]

C9_Witness ==
    /\ ret.op = "Update"
    /\ ret.val = "true"
    /\ calls.NextRound = 1
    /\ Len(out) = 1

\* C10 as claimed: when Start returns the error of the Schnorr proof
\* construction, the secret nonce ri of the temp state has been zeroed.
C10_Original ==
    (ret.op = "Start" /\ ret.val = "NewDLogProof(ri, pointRi)")
      => temp.ri \in {0, Nil}


(***************************************************************************)
(* Properties of Bob's prover and verifier (SpecProof)                     *)
(***************************************************************************)
\* the hash value of a transcript the prover or the verifier has hashed
CallHashed(tr) == IF tr \in DOMAIN call.oracle THEN call.oracle[tr] ELSE 0

\* C11: ProveBobWC and ProveBob return an error and no proof, before any
\* nonce is drawn, whenever one of pk, NTilde, h1, h2, c1, c2, x, y, r is
\* absent; with none of them absent they return a proof, and ProveBobWC with
\* X absent returns the proof without check: its challenge hashes the
\* transcript without X and U, and U is the zero point.
C11_ProverRejectsAbsentInputs ==
    call.pc \in {"refused", "proved", "verified"}
      => /\ call.absent # "none"
              => /\ call.pc = "refused"
                 /\ call.res.err # "nil"
                 /\ call.res.pf = NilProofBob
                 /\ ~call.res.sampled
         /\ call.absent = "none"
              => /\ call.res.err = "nil"
                 /\ call.res.pf.ptr
                 /\ call.res.sampled
         /\ (call.absent = "none" /\ call.fn = "ProveBobWC/noX")
              => /\ call.res.pf.U = 0
                 /\ <<call.key.N, call.key.N + 1, call.args.c1, call.args.c2,
                      call.res.pf.Z, call.res.pf.ZPrm, call.res.pf.T,
                      call.res.pf.V, call.res.pf.W>> \in DOMAIN call.oracle

C11_Witness ==
    /\ call.pc = "refused"
    /\ call.fn = "ProveBob"
    /\ call.absent = "r"
    /\ call.res.err = "ProveBob() received a nil argument"

\* the predicate spec 4.5 states, on what the verifier is given, for the
\* challenge e hashed from the transcript
StatedPredicate ==
    LET a == call.args
        pf == call.given.pf
        X == call.given.X
        N == a.pk.N
        NN == N * N
        NT == a.NTilde
        e == CallHashed(BobVerifyTranscript(
                 IF call.fn = "ProveBob" THEN [pf EXCEPT !.U = Nil] ELSE pf,
                 a.pk, a.c1, a.c2, X))
        unitOf(v, m) == 0 <= v /\ v < m /\ GCD(v, m) = 1
    IN /\ \A v \in {pf.Z, pf.ZPrm, pf.T, pf.W} : unitOf(v, NT)
       /\ unitOf(pf.V, NN) /\ GCD(pf.V, N) = 1
       /\ unitOf(pf.S, N) /\ pf.S # 0
       /\ pf.S1 <= q3
       /\ pf.T1 <= q7
       /\ X # Nil => (pf.S1 % q) = (e * X + pf.U) % q
       /\ MulMod(ModExp(a.h1, pf.S1, NT), ModExp(a.h2, pf.S2, NT), NT)
            = MulMod(ModExp(pf.Z, e, NT), pf.ZPrm, NT)
       /\ MulMod(ModExp(a.h1, pf.T1, NT), ModExp(a.h2, pf.T2, NT), NT)
            = MulMod(ModExp(pf.T, e, NT), pf.W, NT)
       /\ MulMod(MulMod(ModExp(a.c1, pf.S1, NN), ModExp(pf.S, N, NN), NN),
                 ModExp(N + 1, pf.T1, NN), NN)
            = MulMod(ModExp(a.c2, e, NN), pf.V, NN)

\* C14: on a proof with all components present, ProofBobWC.Verify and
\* ProofBob.Verify return true iff the stated predicate holds (memberships
\* and coprimality of z, z', t, w, v, s, S1 <= q^3 and T1 <= q^7 with
\* equality accepted, the point equation when X is present, the three
\* modular equations), and false otherwise.
C14_VerifierAcceptsExactlyThePredicate ==
    call.pc = "verified"
      => /\ call.verdict \in {"true", "false"}
         /\ (call.verdict = "true") = StatedPredicate

C14_Witness ==
    /\ call.pc = "verified"
    /\ call.verdict = "true"
    /\ call.fn = "ProveBobWC"
    /\ call.given.pf.S1 = q3
    /\ call.given.pf.T1 = q7

\* C15 as claimed: every proof ProveBob / ProveBobWC returns on honest
\* inputs, for every choice of the nonces, is accepted by Verify on the same
\* public inputs.
C15_Original ==
    (call.pc = "verified" /\ call.altered = "none") => call.verdict = "true"

\* C15 amended: a proof returned on honest inputs is accepted exactly when
\* its responses stay within the verifier's bounds, s1 = e*x + alpha <= q^3
\* and t1 = e*y + gamma <= q^7; responses above a bound are rejected.
C15_CompleteWithinBounds ==
    (call.pc = "verified" /\ call.altered = "none")
      => (call.verdict = "true")
           = (call.res.pf.S1 <= q3 /\ call.res.pf.T1 <= q7)

C15_Witness ==
    /\ call.pc = "verified"
    /\ call.altered = "none"
    /\ call.verdict = "true"
    /\ call.fn = "ProveBobWC"
    /\ call.args.x = 2
    /\ call.args.y = q5 - 1
    /\ call.res.pf.S1 > call.args.x


(***************************************************************************)
(* Properties of the proof encoding (SpecCodec)                            *)
(***************************************************************************)
\* the proof was encoded, the parts reached the matching decoder unchanged
RoundTripped ==
    /\ call.pc = "decoded"
    /\ ~call.mangled
    /\ call.fn = IF call.wc THEN "ProofBobWCFromBytes" ELSE "ProofBobFromBytes"

\* all components of the proof are present
AllPresent ==
    IF call.wc THEN ProofBobWCValidateBasic(call.pf) = TRUE
    ELSE ProofBobValidateBasic(call.pf)

\* no component of the proof encodes to an empty part, and U is on the curve
AllNonZero ==
    /\ \A i \in 1 .. Len(ProofBobFields) : call.pf[ProofBobFields[i]] > 0
    /\ call.wc => call.pf.U \in 1 .. (q - 1)

\* the decoder returned the proof that was encoded
DecodedEqual ==
    /\ call.decoded.err = "nil"
    /\ ~call.decoded.panic
    /\ \A i \in 1 .. Len(ProofBobFields) :
         call.decoded.pf[ProofBobFields[i]] = call.pf[ProofBobFields[i]]
    /\ call.decoded.pf.U = call.pf.U

\* C12 as claimed: for every proof that passes ValidateBasic, FromBytes of
\* its Bytes succeeds and returns an equal proof.
C12_Original ==
    (call.pc \in {"panicked", "decoded"} /\ AllPresent)
      => /\ call.pc = "decoded"
         /\ RoundTripped => DecodedEqual

\* C12 amended: for every proof whose ten components are all positive (and,
\* with check, whose U is a curve point other than the zero point)
\* FromBytes of its Bytes succeeds and returns an equal proof, the parts in
\* the order Z, ZPrm, T, V, W, S, S1, S2, T1, T2 (, U.X, U.Y); a proof that
\* passes ValidateBasic with a zero component or the zero point encodes to
\* an empty part and FromBytes returns an error.
C12_RoundTripOfNonZeroProofs ==
    (RoundTripped /\ AllPresent)
      => /\ AllNonZero => DecodedEqual
         /\ AllNonZero
              => /\ Len(call.bzs) = (IF call.wc THEN 12 ELSE 10)
                 /\ call.bzs[7] = BigIntBytes(call.pf.S1)
                 /\ call.bzs[10] = BigIntBytes(call.pf.T2)
         /\ ~AllNonZero
              => (call.decoded.err # "nil" /\ ~call.decoded.pf.ptr)

C12_Witness ==
    /\ RoundTripped
    /\ call.wc
    /\ call.pf.S1 = 65536
    /\ call.pf.U = 1
    /\ DecodedEqual

\* C19 as claimed: ProofBobWCFromBytes returns an error for every input that
\* is not exactly 12 non-empty parts, ProofBobFromBytes for every input
\* whose part count is neither 10 nor 12 or that holds an empty part; no
\* decoder fails abruptly.
C19_Original ==
    call.pc = "decoded"
      => LET n == Len(call.bzs)
             someEmpty == \E i \in 1 .. n : call.bzs[i] = <<>>
         IN /\ ~call.decoded.panic
            /\ (call.fn = "ProofBobWCFromBytes" /\ (n # 12 \/ someEmpty))
                 => call.decoded.err # "nil"
            /\ (call.fn = "ProofBobFromBytes" /\ (n \notin {10, 12} \/ someEmpty))
                 => call.decoded.err # "nil"


(***************************************************************************)
(* Properties of the parameters (SpecParams)                               *)
(***************************************************************************)
\* C13: NewParameters without a timeout gives SafePrimeGenTimeout() of five
\* minutes, with one timeout that timeout, with more than one it fails;
\* NewReSharingParameters always gives the default; the flag
\* UNSAFE_KGIgnoreH1H2Dupes is false after construction and changes only by
\* its setter, which sets it to the value passed.
C13_TimeoutAndFlag ==
    /\ [](call.op = "NewParameters"
            => /\ call.pc = "panicked" <=> Len(call.opts) > 1
               /\ call.pc = "panicked" => ~call.params.ptr
               /\ (call.pc = "params" /\ Len(call.opts) = 0)
                    => SafePrimeGenTimeout(call.params) = 300
               /\ (call.pc = "params" /\ Len(call.opts) = 1)
                    => SafePrimeGenTimeout(call.params) = call.opts[1]
               /\ call.pc = "params"
                    => ~UNSAFE_KGIgnoreH1H2Dupes(call.params))
    /\ [](call.op = "NewReSharingParameters"
            => /\ call.pc = "params"
               /\ SafePrimeGenTimeout(call.params) = 300
               /\ ~UNSAFE_KGIgnoreH1H2Dupes(call.params))
    /\ [][/\ (UNSAFE_KGIgnoreH1H2Dupes(call'.params)
                # UNSAFE_KGIgnoreH1H2Dupes(call.params))
               => call'.op = "UNSAFE_setKGIgnoreH1H2Dupes"
          /\ (call.pc = "params" /\ call'.pc # "new")
               => SafePrimeGenTimeout(call'.params)
                    = SafePrimeGenTimeout(call.params)]_vars

C13_Witness ==
    /\ call.pc = "params"
    /\ call.op = "UNSAFE_setKGIgnoreH1H2Dupes"
    /\ UNSAFE_KGIgnoreH1H2Dupes(call.params)
    /\ ~call.params.resharing
    /\ call.opts = <<0>>
    /\ SafePrimeGenTimeout(call.params) = 0

\* the keys of the identities of a list
KeysOf(ids) == {ids[k].key : k \in 1 .. Len(ids)}

\* C20 as claimed: IsOldCommittee (IsNewCommittee) is true iff the local
\* party's key is the key of a member of the old (new) context;
\* OldAndNewParties returns the old identities followed by the new and
\* leaves both contexts unchanged; OldAndNewPartyCount is the sum of the two
\* counts.
C20_Original ==
    /\ call.op = "Committee"
         => /\ call.answers.isOld <=> call.partyID.key \in KeysOf(call.oldIDs)
            /\ call.answers.isNew <=> call.partyID.key \in KeysOf(call.newIDs)
            /\ call.answers.count = Len(call.oldIDs) + Len(call.newIDs)
    /\ call.op = "OldAndNewParties"
         => /\ call.answers.ids = call.oldIDs \o call.newIDs
            /\ IDs(call.arrays, call.params.parties) = call.oldIDs
            /\ IDs(call.arrays, call.params.newParties) = call.newIDs


(***************************************************************************)
(* Ranges of the MtA values (SpecMtA)                                      *)
(***************************************************************************)
\* BobMid has returned without error
BobMidSucceeded ==
    /\ mta.pc \in {"bob", "done"}
    /\ ~mta.wc
    /\ mta.bob.err = "nil"

\* C16: on every successful BobMid, 0 <= beta < q, (beta + beta') mod q = 0,
\* beta' is in [0, q^5) and cB decrypts under Alice's key to
\* (a*b + beta') mod N; every alpha that AliceEnd returns is in [0, q).
C16_MtARanges ==
    /\ BobMidSucceeded
         => /\ 0 <= mta.bob.beta /\ mta.bob.beta < q
            /\ (mta.bob.beta + mta.bob.betaPrm) % q = 0
            /\ 0 <= mta.bob.betaPrm /\ mta.bob.betaPrm < q * q * q * q * q
            /\ Decrypt(mta.key, mta.bob.cB).err = "nil"
            /\ Decrypt(mta.key, mta.bob.cB).m
                 = (mta.a * mta.b + mta.bob.betaPrm) % mta.key.N
    /\ (mta.pc = "done" /\ ~mta.wc /\ mta.alice.err = "nil"
        /\ ~mta.alice.panicked)
         => (0 <= mta.alice.share /\ mta.alice.share < q)

\* the plaintext wraps around N and the share of Bob is not zero
C16_Witness ==
    /\ BobMidSucceeded
    /\ mta.pc = "done"
    /\ mta.alice.err = "nil"
    /\ ~mta.alice.panicked
    /\ mta.a * mta.b + mta.bob.betaPrm >= mta.key.N
    /\ mta.bob.beta > 0
    /\ mta.alice.share > 0


(***************************************************************************)
(* Effects of round2.Start and the ok flags under Update (Spec)            *)
(***************************************************************************)
\* C17: a Start that returns nil has set number to 2, cleared every ok flag,
\* recorded the round-1 commitment of every party j in cjs[j], stored the
\* party's own SignRound2Message in slot i and written exactly that one
\* message to the sink; a Start that returns an error has written nothing
\* to the sink and stored nothing in slot i.
C17_StartEffects ==
    [][/\ (ret'.op = "Start" /\ ret'.val = "nil")
            => /\ number' = 2
               /\ \A j \in Parties : ~ok'[j]
               /\ \A j \in Parties : temp'.cjs[j] = 256 + (j + 1)
               /\ temp'.signRound2Messages[partyIndex].type
                    = "SignRound2Message"
               /\ temp'.signRound2Messages[partyIndex].from = partyIndex
               /\ temp'.signRound2Messages[partyIndex].broadcast
               /\ \A j \in Parties \ {partyIndex} :
                    temp'.signRound2Messages[j] = temp.signRound2Messages[j]
               /\ out' = Append(out, temp'.signRound2Messages[partyIndex])
       /\ (ret'.op = "Start" /\ ret'.val # "nil")
            => /\ out' = out
               /\ temp'.signRound2Messages = temp.signRound2Messages]_vars

\* the second successful Start of the round object
C17_Witness ==
    /\ ret.op = "Start"
    /\ ret.val = "nil"
    /\ number = 2
    /\ Len(out) = 2
    /\ out[2] = temp.signRound2Messages[partyIndex]
    /\ \A j \in Parties : ~ok[j] /\ temp.cjs[j] # Nil

\* C18: Update never changes an ok flag from true to false, and nothing but
\* Start and Update changes the flags; a slot that is marked ok is not
\* looked at again, so Update reports ready exactly when every slot is
\* marked ok or holds an acceptable message, also when a slot marked ok
\* has since been overwritten with an absent or unacceptable message.
C18_OkMonotone ==
    [][/\ ret'.op = "Update"
            => /\ \A j \in Parties : ok[j] => ok'[j]
               /\ (\A j \in Parties :
                     ok[j] \/ ~Rejectable(temp.signRound2Messages[j]))
                    => ret'.val = "true"
       /\ ok' # ok => ret'.op \in {"Start", "Update"}]_vars

\* Update reported ready over a slot whose message is not acceptable
C18_Witness ==
    /\ ret.op = "Update"
    /\ ret.val = "true"
    /\ started
    /\ \E j \in Parties \ {partyIndex} :
         /\ ok[j]
         /\ Rejectable(temp.signRound2Messages[j])

=============================================================================
